---- MODULE Spec2Model ----
(***************************************************************************)
(* Model of the context router (src/src/model/context_router.py) and of    *)
(* the context detection of the style analyzer                             *)
(* (src/src/model/style_analyzer.py).                                      *)
(*                                                                         *)
(* Strings are sequences of Unicode code points, so that str.lower() and   *)
(* the substring test `keyword in text` are computed, not assumed.         *)
(* Python floats are IEEE-754 doubles: a finite double is the record       *)
(* [neg, man, exp] standing for (-1)^neg * man * 2^exp with man an odd     *)
(* natural number below 2^53 (or zero), and every arithmetic operation     *)
(* rounds to nearest, ties to even, as the hardware does.                  *)
(***************************************************************************)
EXTENDS Integers, Sequences, FiniteSets, TLC

(***************************************************************************)
(* Natural numbers of arbitrary size: little-endian sequences of limbs in  *)
(* base 4096 without leading zero limbs; zero is the empty sequence.       *)
(***************************************************************************)
Base == 4096

LimbBits == 12

MaxOf(a, b) == IF a >= b THEN a ELSE b

MinOf(a, b) == IF a <= b THEN a ELSE b

\* F(v): names the value v in the expression F, which uses it several times
With(v, F(_)) == F(v)

\* limb i of a, zero outside of a
NLimb(a, i) == IF i >= 1 /\ i <= Len(a) THEN a[i] ELSE 0

\* the limbs of a without its leading zero limbs
NTrim(a) ==
    SubSeq(a, 1, CHOOSE i \in 0..Len(a) :
                     /\ i = 0 \/ a[i] # 0
                     /\ \A j \in (i + 1)..Len(a) : a[j] = 0)

\* a natural number below 2^31
NFromInt(k) == NTrim(<<k % Base, (k \div Base) % Base, k \div (Base * Base)>>)

\* the number of the limb sums s, each at most 2 * Base - 2: limb i gets a
\* carry iff a lower limb j overflows and every limb between j and i is
\* Base - 1
NCarry(s) ==
    NTrim([i \in 1..Len(s) |->
              (s[i] + IF \E j \in 1..(i - 1) :
                              /\ s[j] >= Base
                              /\ \A k \in (j + 1)..(i - 1) : s[k] = Base - 1
                      THEN 1 ELSE 0) % Base])

\* a + b
NAdd(a, b) ==
    NCarry([i \in 1..(MaxOf(Len(a), Len(b)) + 1) |-> NLimb(a, i) + NLimb(b, i)])

\* a - b for a >= b: limb i lends iff a lower limb j is too small and every
\* limb between j and i is equal in a and b
NSub(a, b) ==
    NTrim([i \in 1..Len(a) |->
              ((a[i] - NLimb(b, i)) + Base
               - IF \E j \in 1..(i - 1) :
                        /\ a[j] < NLimb(b, j)
                        /\ \A k \in (j + 1)..(i - 1) : a[k] = NLimb(b, k)
                 THEN 1 ELSE 0) % Base])

\* the highest limb in which a and b differ, zero if a = b
NTopDiff(a, b) ==
    CHOOSE i \in 0..MaxOf(Len(a), Len(b)) :
        /\ i = 0 \/ NLimb(a, i) # NLimb(b, i)
        /\ \A j \in (i + 1)..MaxOf(Len(a), Len(b)) : NLimb(a, j) = NLimb(b, j)

Sign(n) == IF n < 0 THEN -1 ELSE IF n > 0 THEN 1 ELSE 0

NLimbDiff(a, b, i) == NLimb(a, i) - NLimb(b, i)

\* -1, 0, 1 as a < b, a = b, a > b: the highest limb that differs decides
NCmp(a, b) == Sign(NLimbDiff(a, b, NTopDiff(a, b)))

\* a * d for 0 <= d <= Base: the low and the high parts of the limb products
NMulSmall(a, d) ==
    NAdd([i \in 1..Len(a) |-> (a[i] * d) % Base],
         [i \in 1..(Len(a) + 1) |->
             IF i = 1 THEN 0 ELSE (a[i - 1] * d) \div Base])

\* column k of the schoolbook product of a and b, for a and b of at most five
\* limbs (a mantissa is below 2^53): the sum of the limb products of weight
\* Base^(k-1), which is below 2^27
NMulColumn(a, b, k) ==
    NLimb(a, 1) * NLimb(b, k) + NLimb(a, 2) * NLimb(b, k - 1)
    + NLimb(a, 3) * NLimb(b, k - 2) + NLimb(a, 4) * NLimb(b, k - 3)
    + NLimb(a, 5) * NLimb(b, k - 4)

\* the number of the columns c, each below 2^27: the columns are split into
\* three limbs each and the three parts are added
NMulCarry(c) ==
    NAdd(NAdd([k \in 1..Len(c) |-> c[k] % Base],
              [k \in 1..Len(c) |-> (NLimb(c, k - 1) \div Base) % Base]),
         [k \in 1..Len(c) |-> NLimb(c, k - 2) \div (Base * Base)])

\* a * b for a and b of at most five limbs
NMul(a, b) ==
    NMulCarry([k \in 1..(Len(a) + Len(b)) |-> NMulColumn(a, b, k)])

\* a * 2^k
NShl(a, k) ==
    NTrim([i \in 1..(Len(a) + (k \div LimbBits) + 1) |->
              ((NLimb(a, i - (k \div LimbBits)) * 2 ^ (k % LimbBits)) % Base)
              + ((NLimb(a, i - (k \div LimbBits) - 1) * 2 ^ (k % LimbBits))
                 \div Base)])

\* a \div 2^k
NShr(a, k) ==
    NTrim([i \in 1..(Len(a) - (k \div LimbBits)) |->
              (NLimb(a, i + (k \div LimbBits)) \div 2 ^ (k % LimbBits))
              + ((NLimb(a, i + (k \div LimbBits) + 1) % 2 ^ (k % LimbBits))
                 * (Base \div 2 ^ (k % LimbBits)))])

\* a % 2^k
NLow(a, k) ==
    NTrim([i \in 1..MinOf(Len(a), (k \div LimbBits) + 1) |->
              IF i <= k \div LimbBits THEN a[i]
              ELSE a[i] % 2 ^ (k % LimbBits)])

\* bit k of a, counted from zero
NBit(a, k) ==
    (NLimb(a, (k \div LimbBits) + 1) \div 2 ^ (k % LimbBits)) % 2 = 1

\* number of bits of a
NBitLen(a) ==
    IF a = <<>> THEN 0
    ELSE LimbBits * (Len(a) - 1)
         + CHOOSE k \in 1..LimbBits :
               2 ^ (k - 1) <= a[Len(a)] /\ a[Len(a)] < 2 ^ k

NIsOdd(a) == a # <<>> /\ a[1] % 2 = 1

\* number of trailing zero bits of a > 0
NTrailingZeros(a) ==
    CHOOSE k \in 0..(LimbBits * Len(a)) : NBit(a, k) /\ NLow(a, k) = <<>>

\* floor(Base * c / t) for 0 <= c <= t < 2^24, in two steps that stay
\* below 2^31
ScaledQuot(c, t) == ((c * 64) \div t) * 64 + ((((c * 64) % t) * 64) \div t)

\* the estimate of cur \div b from the two leading limbs of b and the limbs
\* of cur above them, for 0 < b and cur < b * Base: off by at most two
QuotEstimate(cur, b) ==
    ScaledQuot(NLimb(cur, Len(b) + 1) * Base + NLimb(cur, Len(b)),
               b[Len(b)] * Base + NLimb(b, Len(b) - 1))

\* the quotient limb cur \div b near its estimate
QuotNear(cur, b, est) ==
    CHOOSE d \in MaxOf(0, est - 3)..MinOf(Base - 1, est + 3) :
        /\ NCmp(NMulSmall(b, d), cur) <= 0
        /\ NCmp(NMulSmall(b, d + 1), cur) > 0

\* the quotient limb cur \div b for 0 < b and cur < b * Base
QuotDigit(cur, b) == QuotNear(cur, b, QuotEstimate(cur, b))

\* long division in base 4096 by b > 0, most significant limb first: limb i
\* of a is brought down to the remainder r and gives the next quotient limb
RECURSIVE NDivModFrom(_, _, _, _, _)
NDivModFrom(a, b, i, q, r) ==
    IF i = 0 THEN [q |-> NTrim(q), r |-> r]
    ELSE With(NTrim(<<a[i]>> \o r), LAMBDA cur :
           With(IF NCmp(cur, b) < 0 THEN 0 ELSE QuotDigit(cur, b), LAMBDA d :
             NDivModFrom(a, b, i - 1, <<d>> \o q,
                         NSub(cur, NMulSmall(b, d)))))

\* quotient and remainder of a by b > 0
NDivMod(a, b) == NDivModFrom(a, b, Len(a), <<>>, <<>>)

(***************************************************************************)
(* IEEE-754 binary64 values and operations (round to nearest, ties to      *)
(* even).  The magnitudes that occur are far from overflow and underflow.  *)
(***************************************************************************)
Precision == 53

FZero == [neg |-> FALSE, man |-> <<>>, exp |-> 0]

\* the canonical record of (-1)^neg * man * 2^exp, man representable
FCanon(neg, man, exp) ==
    IF man = <<>> THEN FZero
    ELSE With(NTrailingZeros(man), LAMBDA tz :
           [neg |-> neg, man |-> NShr(man, tz), exp |-> exp + tz])

\* man + eps without its d lowest bits, rounded to nearest, ties to even,
\* where 0 < eps < 1 if sticky and eps = 0 otherwise: bit d - 1 is the
\* round bit
FRoundShift(man, d, sticky) ==
    IF d = 0 THEN man
    ELSE With(NShr(man, d), LAMBDA q :
           IF /\ NBit(man, d - 1)
              /\ (sticky \/ NIsOdd(q) \/ NLow(man, d - 1) # <<>>)
           THEN NAdd(q, <<1>>) ELSE q)

\* the double nearest to (-1)^neg * (man + eps) * 2^exp, where 0 < eps < 1
\* if sticky and eps = 0 otherwise
FRound(neg, man, exp, sticky) ==
    With(MaxOf(0, NBitLen(man) - Precision), LAMBDA d :
      FCanon(neg, FRoundShift(man, d, sticky), exp + d))

FFromInt(k) ==
    FCanon(k < 0, NFromInt(IF k < 0 THEN -k ELSE k), 0)

FNeg(x) == IF x.man = <<>> THEN x ELSE [x EXCEPT !.neg = ~x.neg]

FAbs(x) == [x EXCEPT !.neg = FALSE]

\* the mantissa of x at the smaller of the exponents of x and y
FAlign(x, y) == NShl(x.man, x.exp - MinOf(x.exp, y.exp))

\* -1, 0, 1 as x < y, x = y, x > y
FCmp(x, y) ==
    IF x.man = <<>> /\ y.man = <<>> THEN 0
    ELSE IF x.man = <<>> THEN (IF y.neg THEN 1 ELSE -1)
    ELSE IF y.man = <<>> THEN (IF x.neg THEN -1 ELSE 1)
    ELSE IF x.neg # y.neg THEN (IF x.neg THEN -1 ELSE 1)
    ELSE (IF x.neg THEN -1 ELSE 1) * NCmp(FAlign(x, y), FAlign(y, x))

FLt(x, y) == FCmp(x, y) < 0

FLe(x, y) == FCmp(x, y) <= 0

\* the sum of the aligned mantissas mx and my of x and y, signed: the
\* magnitudes are added for equal signs and subtracted otherwise
FAddAligned(x, y, mx, my, c) ==
    FRound(IF x.neg = y.neg \/ c > 0 THEN x.neg ELSE y.neg,
           IF x.neg = y.neg THEN NAdd(mx, my)
           ELSE IF c >= 0 THEN NSub(mx, my) ELSE NSub(my, mx),
           MinOf(x.exp, y.exp), FALSE)

FAdd(x, y) ==
    IF x.man = <<>> THEN y
    ELSE IF y.man = <<>> THEN x
    ELSE With(FAlign(x, y), LAMBDA mx :
           With(FAlign(y, x), LAMBDA my :
             FAddAligned(x, y, mx, my, NCmp(mx, my))))

FSub(x, y) == FAdd(x, FNeg(y))

FMul(x, y) ==
    IF x.man = <<>> \/ y.man = <<>> THEN FZero
    ELSE FRound(x.neg # y.neg, NMul(x.man, y.man), x.exp + y.exp, FALSE)

\* x / y for y # 0 with the numerator scaled by 2^k
FDivScaled(x, y, k) ==
    With(NDivMod(NShl(x.man, k), y.man), LAMBDA qr :
      FRound(x.neg # y.neg, qr.q, x.exp - y.exp - k, qr.r # <<>>))

\* x / y for y # 0: the quotient is computed to at least Precision + 2 bits
FDiv(x, y) ==
    IF x.man = <<>> THEN FZero
    ELSE FDivScaled(x, y,
             MaxOf(0, Precision + 3 + NBitLen(y.man) - NBitLen(x.man)))

(***************************************************************************)
(* Python values.  None and a present value are the sequences <<>> and     *)
(* <<v>>; a str is a sequence of code points; a list is a sequence; a dict *)
(* is a function whose domain is its set of keys.                          *)
(***************************************************************************)
None == <<>>

Some(v) == <<v>>

EmptyDict == [k \in {} |-> 0]

\* a test that tells None from a value and takes the empty value as true
TruthyNotNone(opt) == opt # None

\* bool(v) of an optional str, list or dict: None and the empty value are false
Truthy(opt) == opt # None /\ opt[1] # <<>>

\* dict.get(key, default)
Get(d, key, default) == IF key \in DOMAIN d THEN d[key] ELSE default

\* str.lower() on one code point: A-Z, the Cyrillic capitals and IO
LowerChar(c) ==
    IF c >= 65 /\ c <= 90 THEN c + 32
    ELSE IF c >= 1040 /\ c <= 1071 THEN c + 32
    ELSE IF c >= 1024 /\ c <= 1039 THEN c + 80
    ELSE c

Lower(s) == [i \in 1..Len(s) |-> LowerChar(s[i])]

\* the Python test `sub in s` on strings
Contains(sub, s) ==
    \E i \in 0..(Len(s) - Len(sub)) : \A j \in 1..Len(sub) : s[i + j] = sub[j]

\* the Python test `x in lst` on lists
InList(x, lst) == \E i \in 1..Len(lst) : lst[i] = x

\* str.isspace() on one code point
IsSpace(c) ==
    \/ c >= 9 /\ c <= 13
    \/ c >= 28 /\ c <= 32
    \/ c \in {133, 160, 5760, 8232, 8233, 8239, 8287, 12288}
    \/ c >= 8192 /\ c <= 8202

\* len(s.split())
WordCount(s) ==
    Cardinality({i \in 1..Len(s) :
                    ~IsSpace(s[i]) /\ (i = 1 \/ IsSpace(s[i - 1]))})

\* lst[:n]
Take(lst, n) == SubSeq(lst, 1, MinOf(n, Len(lst)))

\* lst[-n:]
LastN(lst, n) == SubSeq(lst, MaxOf(1, Len(lst) - n + 1), Len(lst))

\* sep.join(parts)
RECURSIVE Join(_, _)
Join(parts, sep) ==
    IF parts = <<>> THEN <<>>
    ELSE IF Len(parts) = 1 THEN parts[1]
    ELSE parts[1] \o sep \o Join(Tail(parts), sep)

\* Python min(x, y) on floats: y only when y < x
FMin(x, y) == IF FLt(y, x) THEN y ELSE x

(***************************************************************************)
(* The float literals of the sources.                                      *)
(***************************************************************************)
F0_0 == FZero

\* the double of the literal 0.1 (0x1.999999999999ap-4)
F0_1 ==
    [neg |-> FALSE, man |-> <<3277, 3276, 3276, 3276, 12>>, exp |-> -55]

\* the double of the literal 0.2 (0x1.999999999999ap-3)
F0_2 ==
    [neg |-> FALSE, man |-> <<3277, 3276, 3276, 3276, 12>>, exp |-> -54]

\* the double of the literal 0.3 (0x1.3333333333333p-2)
F0_3 ==
    [neg |-> FALSE, man |-> <<819, 819, 819, 819, 19>>, exp |-> -54]

\* the double of the literal 0.4 (0x1.999999999999ap-2)
F0_4 ==
    [neg |-> FALSE, man |-> <<3277, 3276, 3276, 3276, 12>>, exp |-> -53]

\* the double of the literal 0.5 (0x1.0000000000000p-1)
F0_5 ==
    [neg |-> FALSE, man |-> <<1>>, exp |-> -1]

\* the double of the literal 1.0 (0x1.0000000000000p+0)
F1_0 ==
    [neg |-> FALSE, man |-> <<1>>, exp |-> 0]

(***************************************************************************)
(* The state: the rule table of the router (self.context_rules), the       *)
(* pattern table of the analyzer (self.context_patterns), the call that is *)
(* made and its result; for a caller that makes its call twice the result  *)
(* of the first time (earlier), and the calls that other callers have in   *)
(* progress on the same router and analyzer (in_progress).  A dict that    *)
(* is iterated is the sequence of its items in insertion order.            *)
(***************************************************************************)
VARIABLES context_rules, context_patterns, call, result, earlier, in_progress

vars ==
    <<context_rules, context_patterns, call, result, earlier, in_progress>>

weights ==
    <<[key |-> "keyword_match", value |-> F0_4],
      [key |-> "dialog_history", value |-> F0_3],
      [key |-> "time_of_day", value |-> F0_1],
      [key |-> "user_preferences", value |-> F0_2]>>

_build_context_rules ==
    <<
    [name |-> "professional",
     rules |->
       [keywords |->
            << <<1088, 1072, 1073, 1086, 1090, 1072>>,  \* работа
               <<1087, 1088, 1086, 1077, 1082, 1090>>,  \* проект
               <<1079, 1072, 1076, 1072, 1095, 1072>>,  \* задача
               <<1074, 1089, 1090, 1088, 1077, 1095, 1072>>,  \* встреча
               <<1082, 1086, 1083, 1083, 1077, 1075, 1072>>,  \* коллега
              <<1085, 1072, 1095, 1072, 1083, 1100, 1085, 1080, 1082>>,  \* начальник
              <<1076, 1077, 1076, 1083, 1072, 1081, 1085>>,  \* дедлайн
              <<1086, 1090, 1095, 1077, 1090>>,  \* отчет
              <<1087, 1088, 1077, 1079, 1077, 1085, 1090, 1072, 1094, 1080,
                1103>>,  \* презентация
              <<1073, 1080, 1079, 1085, 1077, 1089>> >>,  \* бизнес
        avoid_keywords |-> << <<1083, 1102, 1073, 1083, 1102>>,  \* люблю
                              <<1086, 1073, 1085, 1080, 1084, 1072, 1102>>,  \* обнимаю
                              <<1094, 1077, 1083, 1091, 1102>>,  \* целую
                              <<1093, 1072, 45, 1093, 1072>> >>,  \* ха-ха
        time_preference |-> <<"morning", "afternoon">>,
        typical_length |-> "medium",
        emoji_limit |-> 1]],
    [name |-> "family",
     rules |->
       [keywords |->
            << <<1084, 1072, 1084, 1072>>,  \* мама
               <<1087, 1072, 1087, 1072>>,  \* папа
               <<1088, 1086, 1076, 1080, 1090, 1077, 1083, 1080>>,  \* родители
               <<1073, 1088, 1072, 1090>>,  \* брат
               <<1089, 1077, 1089, 1090, 1088, 1072>>,  \* сестра
               <<1089, 1077, 1084, 1100, 1103>>,  \* семья
               <<1088, 1086, 1076, 1085, 1099, 1077>>,  \* родные
              <<1076, 1077, 1090, 1080>>,  \* дети
              <<1074, 1085, 1091, 1082, 1080>>,  \* внуки
              <<1073, 1072, 1073, 1091, 1096, 1082, 1072>>,  \* бабушка
              <<1076, 1077, 1076, 1091, 1096, 1082, 1072>> >>,  \* дедушка
        avoid_keywords |-> << <<1091, 1074, 1072, 1078, 1072, 1077, 1084,
                                1099, 1081>>,  \* уважаемый
                              <<1082, 1086, 1083, 1083, 1077, 1075, 1072>>,  \* коллега
                              <<1087, 1088, 1086, 1090, 1086, 1082, 1086,
                                1083>> >>,  \* протокол
        time_preference |-> <<"evening", "weekend">>,
        typical_length |-> "short",
        emoji_limit |-> 3]],
    [name |-> "romantic",
     rules |->
       [keywords |->
            << <<1083, 1102, 1073, 1083, 1102>>,  \* люблю
               <<1086, 1073, 1086, 1078, 1072, 1102>>,  \* обожаю
               <<1076, 1086, 1088, 1086, 1075, 1086, 1081>>,  \* дорогой
               <<1084, 1080, 1083, 1099, 1081>>,  \* милый
               <<1083, 1102, 1073, 1080, 1084, 1099, 1081>>,  \* любимый
              <<1088, 1086, 1084, 1072, 1085, 1090, 1080, 1082, 1072>>,  \* романтика
              <<1086, 1090, 1085, 1086, 1096, 1077, 1085, 1080, 1103>>,  \* отношения
              <<1095, 1091, 1074, 1089, 1090, 1074, 1072>>,  \* чувства
              <<1089, 1077, 1088, 1076, 1094, 1077>>,  \* сердце
              <<1087, 1086, 1094, 1077, 1083, 1091, 1081>> >>,  \* поцелуй
        emojis |->
            << <<10084, 65039>>,  \* ❤️
               <<128149>>,  \* 💕
               <<128536>>,  \* 😘
               <<128139>>,  \* 💋
              <<128525>>,  \* 😍
              <<129392>> >>,  \* 🥰
        time_preference |-> <<"evening", "night">>,
        typical_length |-> "medium",
        emoji_limit |-> 2]],
    [name |-> "friendly",
     rules |->
       [keywords |->
            << <<1076, 1088, 1091, 1075>>,  \* друг
               <<1087, 1086, 1076, 1088, 1091, 1075, 1072>>,  \* подруга
               <<1087, 1088, 1080, 1103, 1090, 1077, 1083, 1100>>,  \* приятель
               <<1090, 1091, 1089, 1086, 1074, 1082, 1072>>,  \* тусовка
               <<1074, 1089, 1090, 1088, 1077, 1095, 1072>>,  \* встреча
               <<1082, 1072, 1092, 1077>>,  \* кафе
              <<1082, 1080, 1085, 1086>>,  \* кино
              <<1087, 1088, 1086, 1075, 1091, 1083, 1082, 1072>>,  \* прогулка
              <<1074, 1077, 1095, 1077, 1088, 1080, 1085, 1082, 1072>> >>,  \* вечеринка
        emojis |->
            << <<128522>>,  \* 😊
               <<128514>>,  \* 😂
               <<128526>>,  \* 😎
               <<128077>>,  \* 👍
               <<128075>> >>,  \* 👋
        time_preference |-> <<"afternoon", "evening">>,
        typical_length |-> "short",
        emoji_limit |-> 3]],
    [name |-> "creative",
     rules |->
       [keywords |->
            << <<1080, 1076, 1077, 1103>>,  \* идея
               <<1090, 1074, 1086, 1088, 1095, 1077, 1089, 1090, 1074, 1086>>,  \* творчество
               <<1074, 1076, 1086, 1093, 1085, 1086, 1074, 1077, 1085, 1080,
                 1077>>,  \* вдохновение
               <<1087, 1088, 1086, 1077, 1082, 1090>>,  \* проект
               <<1080, 1089, 1082, 1091, 1089, 1089, 1090, 1074, 1086>>,  \* искусство
              <<1084, 1091, 1079, 1099, 1082, 1072>>,  \* музыка
              <<1088, 1080, 1089, 1091, 1085, 1086, 1082>>,  \* рисунок
              <<1087, 1080, 1089, 1072, 1090, 1100>>,  \* писать
              <<1089, 1086, 1079, 1076, 1072, 1074, 1072, 1090, 1100>>,  \* создавать
              <<1082, 1088, 1077, 1072, 1090, 1080, 1074>> >>,  \* креатив
        time_preference |-> <<"night", "flexible">>,
        typical_length |-> "long",
        emoji_limit |-> 2]]
    >>

\* self.weights[key]
WeightOf(key) ==
    weights[CHOOSE i \in 1..Len(weights) : weights[i].key = key].value

\* sum(self.weights.values()): starts from the int 0, adds left to right
RECURSIVE SumWeights(_)
SumWeights(n) ==
    IF n = 0 THEN FFromInt(0) ELSE FAdd(SumWeights(n - 1), weights[n].value)

\* name in self.context_rules
HasContext(name) == \E i \in 1..Len(context_rules) : context_rules[i].name = name

\* self.context_rules[name], for a name of the table
RulesOf(name) ==
    context_rules[CHOOSE i \in 1..Len(context_rules) :
                      context_rules[i].name = name].rules

_count_emojis(text) ==
    Cardinality({i \in 1..Len(text) :
                    \/ text[i] >= 128512 /\ text[i] <= 128591
                    \/ text[i] >= 127744 /\ text[i] <= 128511
                    \/ text[i] >= 128640 /\ text[i] <= 128767
                    \/ text[i] >= 127462 /\ text[i] <= 127487})

\* the pairs <<context index, keyword index>> whose keyword is in the text
KeywordHits(text_lower) ==
    {p \in UNION {{<<i, j>> : j \in 1..Len(context_rules[i].rules.keywords)} :
                     i \in 1..Len(context_rules)} :
        Contains(context_rules[p[1]].rules.keywords[p[2]], text_lower)}

\* the first hit in the order of the two nested loops
FirstHit(hits) ==
    CHOOSE p \in hits :
        \A o \in hits : p[1] < o[1] \/ (p[1] = o[1] /\ p[2] <= o[2])

\* a faulty _analyze_message that never raises the keyword flag
_analyze_message_no_flag(message) ==
    IF ~Truthy(message) THEN EmptyDict
    ELSE [length |-> WordCount(message[1]),
          has_questions |-> Contains(<<63>>, message[1]),
          has_exclamations |-> Contains(<<33>>, message[1]),
          emoji_count |-> _count_emojis(message[1]),
          has_context_keywords |-> FALSE]

_analyze_message(message) ==
    IF ~Truthy(message) THEN EmptyDict
    ELSE LET text       == message[1]
             text_lower == Lower(text)
             analysis   == [length |-> WordCount(text),
                            has_questions |-> Contains(<<63>>, text),
                            has_exclamations |-> Contains(<<33>>, text),
                            emoji_count |-> _count_emojis(text),
                            has_context_keywords |-> FALSE]
             hits       == KeywordHits(text_lower)
             first      == FirstHit(hits)
         IN  IF hits = {} THEN analysis
             ELSE [analysis EXCEPT !.has_context_keywords = TRUE] @@
                  [detected_keyword |->
                       context_rules[first[1]].rules.keywords[first[2]],
                   detected_context |-> context_rules[first[1]].name]

\* the contexts appended for one history message: each context with a
\* keyword in the message, in table order (the break leaves the keyword loop)
RECURSIVE ContextsIn(_, _)
ContextsIn(msg_lower, i) ==
    IF i > Len(context_rules) THEN <<>>
    ELSE (IF \E j \in 1..Len(context_rules[i].rules.keywords) :
                Contains(context_rules[i].rules.keywords[j], msg_lower)
          THEN <<context_rules[i].name>> ELSE <<>>)
         \o ContextsIn(msg_lower, i + 1)

RECURSIVE RecentContexts(_)
RecentContexts(msgs) ==
    IF msgs = <<>> THEN <<>>
    ELSE ContextsIn(Lower(Head(msgs)), 1) \o RecentContexts(Tail(msgs))

CountOf(x, lst) == Cardinality({i \in 1..Len(lst) : lst[i] = x})

\* Counter(lst).most_common(1)[0]: the largest count, the element seen
\* first among those that have it
MostCommon(lst) ==
    LET i == CHOOSE k \in 1..Len(lst) :
                 /\ \A m \in 1..Len(lst) : CountOf(lst[m], lst) <= CountOf(lst[k], lst)
                 /\ \A m \in 1..(k - 1) : CountOf(lst[m], lst) < CountOf(lst[k], lst)
    IN  <<lst[i], CountOf(lst[i], lst)>>

\* a faulty _analyze_history that scans the whole history
_analyze_history_all(history) ==
    IF history = <<>> THEN EmptyDict
    ELSE LET recent_contexts == RecentContexts(history)
             most_common     == MostCommon(recent_contexts)
         IN  IF recent_contexts # <<>>
             THEN [recent_context |-> most_common[1],
                   context_frequency |->
                       FDiv(FFromInt(most_common[2]),
                            FFromInt(Len(history)))]
             ELSE EmptyDict

_analyze_history(history) ==
    IF history = <<>> THEN EmptyDict
    ELSE LET recent_messages == IF Len(history) > 5 THEN LastN(history, 5)
                                ELSE history
             recent_contexts == RecentContexts(recent_messages)
             most_common     == MostCommon(recent_contexts)
         IN  IF recent_contexts # <<>>
             THEN [recent_context |-> most_common[1],
                   context_frequency |->
                       FDiv(FFromInt(most_common[2]),
                            FFromInt(Len(recent_messages)))]
             ELSE EmptyDict

\* a faulty _analyze_time: a time_info without an hour is read as noon
\* (time_info.get('hour', 12)) instead of giving no analysis
_analyze_time_default_hour(time_info) ==
    LET hour   == Get(time_info, "hour", 12)
        period == IF 6 <= hour /\ hour < 12 THEN "morning"
                  ELSE IF 12 <= hour /\ hour < 18 THEN "afternoon"
                  ELSE IF 18 <= hour /\ hour < 23 THEN "evening"
                  ELSE "night"
    IN  [current_period |-> period, hour |-> hour]

\* a faulty _analyze_time whose evening lasts through hour 23
_analyze_time_long_evening(time_info) ==
    IF "hour" \notin DOMAIN time_info THEN EmptyDict
    ELSE LET hour   == time_info.hour
             period == IF 6 <= hour /\ hour < 12 THEN "morning"
                       ELSE IF 12 <= hour /\ hour < 18 THEN "afternoon"
                       ELSE IF 18 <= hour /\ hour <= 23 THEN "evening"
                       ELSE "night"
             a1     == [current_period |-> period, hour |-> hour]
         IN  IF "weekday" \in DOMAIN time_info
             THEN IF time_info.weekday >= 5
                  THEN [is_weekend |-> TRUE,
                        period_adjustment |-> "more_casual"] @@
                       [weekday |-> time_info.weekday] @@ a1
                  ELSE [weekday |-> time_info.weekday] @@ a1
             ELSE a1

\* a faulty _analyze_time whose period is "weekend" on Saturday and Sunday
_analyze_time_weekend(time_info) ==
    IF "hour" \notin DOMAIN time_info THEN EmptyDict
    ELSE LET hour   == time_info.hour
             period == IF "weekday" \in DOMAIN time_info
                          /\ time_info.weekday >= 5 THEN "weekend"
                       ELSE IF 6 <= hour /\ hour < 12 THEN "morning"
                       ELSE IF 12 <= hour /\ hour < 18 THEN "afternoon"
                       ELSE IF 18 <= hour /\ hour < 23 THEN "evening"
                       ELSE "night"
             a1     == [current_period |-> period, hour |-> hour]
             a2     == IF "weekday" \in DOMAIN time_info
                       THEN IF time_info.weekday >= 5
                            THEN [is_weekend |-> TRUE,
                                  period_adjustment |-> "more_casual"] @@
                                 [weekday |-> time_info.weekday] @@ a1
                            ELSE [weekday |-> time_info.weekday] @@ a1
                       ELSE a1
         IN  IF "is_holiday" \in DOMAIN time_info /\ time_info.is_holiday
             THEN [is_holiday |-> TRUE, period_adjustment |-> "festive"] @@ a2
             ELSE a2

_analyze_time(time_info) ==
    IF "hour" \notin DOMAIN time_info THEN EmptyDict
    ELSE LET hour   == time_info.hour
             period == IF 6 <= hour /\ hour < 12 THEN "morning"
                       ELSE IF 12 <= hour /\ hour < 18 THEN "afternoon"
                       ELSE IF 18 <= hour /\ hour < 23 THEN "evening"
                       ELSE "night"
             a1     == [current_period |-> period, hour |-> hour]
             a2     == IF "weekday" \in DOMAIN time_info
                       THEN IF time_info.weekday >= 5
                            THEN [is_weekend |-> TRUE,
                                  period_adjustment |-> "more_casual"] @@
                                 [weekday |-> time_info.weekday] @@ a1
                            ELSE [weekday |-> time_info.weekday] @@ a1
                       ELSE a1
         IN  IF "is_holiday" \in DOMAIN time_info /\ time_info.is_holiday
             THEN [is_holiday |-> TRUE, period_adjustment |-> "festive"] @@ a2
             ELSE a2

_analyze_preferences(preferences) ==
    (IF "fav_contexts" \in DOMAIN preferences
     THEN [fav_contexts |-> preferences.fav_contexts] ELSE EmptyDict) @@
    (IF "avoid_contexts" \in DOMAIN preferences
     THEN [avoid_contexts |-> preferences.avoid_contexts] ELSE EmptyDict) @@
    (IF "communication_style" \in DOMAIN preferences
     THEN [style |-> preferences.communication_style] ELSE EmptyDict)

\* a faulty _calculate_keyword_score: the message is not lower-cased
_calculate_keyword_score_cased(message, keywords) ==
    IF ~Truthy(message) \/ keywords = <<>> THEN F0_0
    ELSE LET matches == Cardinality({i \in 1..Len(keywords) :
                                        Contains(keywords[i], message[1])})
         IN  FMin(FMul(FFromInt(matches), F0_3), F1_0)

_calculate_keyword_score(message, keywords) ==
    IF ~Truthy(message) \/ keywords = <<>> THEN F0_0
    ELSE LET text_lower == Lower(message[1])
             matches    == Cardinality({i \in 1..Len(keywords) :
                                           Contains(keywords[i], text_lower)})
         IN  FMin(FMul(FFromInt(matches), F0_3), F1_0)

_calculate_avoid_score(message, avoid_words) ==
    IF ~Truthy(message) \/ avoid_words = <<>> THEN F0_0
    ELSE LET text_lower == Lower(message[1])
             matches    == Cardinality({i \in 1..Len(avoid_words) :
                                           Contains(avoid_words[i], text_lower)})
         IN  FMin(FMul(FFromInt(matches), F0_2), F1_0)

\* a faulty _suggest_tone that is enthusiastic in every context
_suggest_tone_any_context(context, message_analysis) ==
    LET tones     == [professional |-> "formal_respectful",
                      family |-> "warm_caring",
                      romantic |-> "tender_affectionate",
                      friendly |-> "casual_friendly",
                      creative |-> "expressive_inspirational"]
        base_tone == Get(tones, context, "neutral")
    IN  IF Get(message_analysis, "has_exclamations", FALSE)
        THEN "enthusiastic_" \o base_tone
        ELSE base_tone

_suggest_tone(context, message_analysis) ==
    LET tones     == [professional |-> "formal_respectful",
                      family |-> "warm_caring",
                      romantic |-> "tender_affectionate",
                      friendly |-> "casual_friendly",
                      creative |-> "expressive_inspirational"]
        base_tone == Get(tones, context, "neutral")
    IN  IF Get(message_analysis, "has_exclamations", FALSE)
           /\ context \in {"friendly", "creative"}
        THEN "enthusiastic_" \o base_tone
        ELSE base_tone

_suggest_key_phrases(context) ==
    LET phrases ==
          [professional |-> << <<1041, 1083, 1072, 1075, 1086, 1076, 1072,
                                 1088, 1102, 32, 1079, 1072, 32, 1089, 1086,
                                 1086, 1073, 1097, 1077, 1085, 1080, 1077>>,  \* Благодарю за сообщение
                              <<1055, 1088, 1077, 1076, 1083, 1072, 1075,
                                1072, 1102, 32, 1088, 1072, 1089, 1089,
                                1084, 1086, 1090, 1088, 1077, 1090, 1100>>,  \* Предлагаю рассмотреть
                              <<1057, 1086, 1075, 1083, 1072, 1089, 1086,
                                1074, 1072, 1085, 1086>>,  \* Согласовано
                              <<1055, 1088, 1086, 1096, 1091, 32, 1091,
                                1090, 1086, 1095, 1085, 1080, 1090, 1100>> >>,  \* Прошу уточнить
           family |-> << <<1055, 1088, 1080, 1074, 1077, 1090, 44, 32, 1082,
                           1072, 1082, 32, 1076, 1077, 1083, 1072, 63>>,  \* Привет, как дела?
                         <<1054, 1073, 1085, 1080, 1084, 1072, 1102, 32,
                           1082, 1088, 1077, 1087, 1082, 1086>>,  \* Обнимаю крепко
                         <<1062, 1077, 1083, 1091, 1102>>,  \* Целую
                        <<1057, 1082, 1091, 1095, 1072, 1102, 32, 1087,
                          1086, 32, 1074, 1072, 1084>> >>,  \* Скучаю по вам
           romantic |-> << <<1055, 1088, 1080, 1074, 1077, 1090, 44, 32,
                             1084, 1086, 1081, 32, 1076, 1086, 1088, 1086,
                             1075, 1086, 1081>>,  \* Привет, мой дорогой
                           <<1057, 1082, 1091, 1095, 1072, 1102, 32, 1087,
                             1086, 32, 1090, 1077, 1073, 1077>>,  \* Скучаю по тебе
                          <<1051, 1102, 1073, 1083, 1102, 32, 1090, 1077,
                            1073, 1103>>,  \* Люблю тебя
                          <<1058, 1099, 32, 1091, 32, 1084, 1077, 1085,
                            1103, 32, 1089, 1072, 1084, 1099, 1081, 32,
                            1083, 1091, 1095, 1096, 1080, 1081>> >>,  \* Ты у меня самый лучший
           friendly |-> << <<1055, 1088, 1080, 1074, 1077, 1090, 33>>,  \* Привет!
                           <<1050, 1072, 1082, 32, 1076, 1077, 1083, 1072,
                             63>>,  \* Как дела?
                           <<1063, 1090, 1086, 32, 1085, 1086, 1074, 1086,
                             1075, 1086, 63>>,  \* Что нового?
                          <<1044, 1072, 1074, 1072, 1081, 32, 1074, 1089,
                            1090, 1088, 1077, 1090, 1080, 1084, 1089, 1103>> >>,  \* Давай встретимся
           creative |-> << <<1048, 1085, 1090, 1077, 1088, 1077, 1089, 1085,
                             1072, 1103, 32, 1084, 1099, 1089, 1083, 1100,
                             33>>,  \* Интересная мысль!
                           <<1042, 1076, 1086, 1093, 1085, 1086, 1074, 1083,
                             1103, 1102, 1097, 1077>>,  \* Вдохновляюще
                          <<1050, 1088, 1077, 1072, 1090, 1080, 1074, 1085,
                            1099, 1081, 32, 1087, 1086, 1076, 1093, 1086,
                            1076>>,  \* Креативный подход
                          <<1055, 1088, 1086, 1076, 1086, 1083, 1078, 1072,
                            1077, 1084, 32, 1090, 1074, 1086, 1088, 1080,
                            1090, 1100>> >>]  \* Продолжаем творить
    IN  Get(phrases, context, << <<1055, 1088, 1080, 1074, 1077, 1090, 33>>,  \* Привет!
                                 <<1050, 1072, 1082, 32, 1076, 1077, 1083,
                                   1072, 63>> >>)  \* Как дела?

_generate_suggestions(context, message_analysis, all_factors) ==
    With(IF HasContext(context) THEN RulesOf(context) ELSE EmptyDict,
         LAMBDA rules :
    With([tone |-> _suggest_tone(context, message_analysis),
          length |-> Get(rules, "typical_length", "medium"),
          emoji_limit |-> Get(rules, "emoji_limit", 2),
          key_phrases |-> _suggest_key_phrases(context),
          avoid |-> Take(Get(rules, "avoid_keywords", <<>>), 3)],
         LAMBDA s1 :
    With(IF Get(message_analysis, "has_questions", FALSE)
         THEN [response_type |-> "answer"] @@ s1
         ELSE IF Get(message_analysis, "has_exclamations", FALSE)
         THEN [response_type |-> "reaction"] @@ s1
         ELSE s1,
         LAMBDA s2 :
    IF /\ "time" \in DOMAIN all_factors
       /\ "current_period" \in DOMAIN all_factors.time
       /\ all_factors.time.current_period = "night"
       /\ context # "professional"
    THEN [s2 EXCEPT !.tone = "more_relaxed"]
    ELSE s2)))

\* the body of the loop over self.context_rules.items() in route_context
ContextScore(context_name, rules, message, history_analysis, time_analysis, preferences_analysis) ==
    LET keyword_score == _calculate_keyword_score(message, rules.keywords)
        avoid_score   == _calculate_avoid_score(
                             message, Get(rules, "avoid_keywords", <<>>))
    IN  With(FAdd(F0_0, FMul(keyword_score, WeightOf("keyword_match"))),
             LAMBDA s1 :
        With(IF /\ "recent_context" \in DOMAIN history_analysis
                /\ history_analysis.recent_context = context_name
             THEN FAdd(s1, FMul(F0_3, WeightOf("dialog_history")))
             ELSE s1,
             LAMBDA s2 :
        With(IF /\ "current_period" \in DOMAIN time_analysis
                /\ InList(time_analysis.current_period,
                          Get(rules, "time_preference", <<>>))
             THEN FAdd(s2, FMul(F0_2, WeightOf("time_of_day")))
             ELSE s2,
             LAMBDA s3 :
        With(IF /\ "fav_contexts" \in DOMAIN preferences_analysis
                /\ InList(context_name, preferences_analysis.fav_contexts)
             THEN FAdd(s3, FMul(F0_3, WeightOf("user_preferences")))
             ELSE s3,
             LAMBDA s4 :
        FSub(s4, FMul(avoid_score, F0_2))))))

\* a faulty sort: sorted(items, key=score) without reverse=True
RECURSIVE SortedAscending(_)
SortedAscending(items) ==
    IF items = <<>> THEN <<>>
    ELSE LET n    == Len(items)
             rest == SortedAscending(SubSeq(items, 1, n - 1))
             x    == items[n]
             k    == Cardinality({i \in 1..Len(rest) :
                                     ~FLt(x.score, rest[i].score)})
         IN  SubSeq(rest, 1, k) \o <<x>> \o SubSeq(rest, k + 1, Len(rest))

\* a faulty sort that puts an item before the earlier items of its score
RECURSIVE SortedByScore_unstable(_)
SortedByScore_unstable(items) ==
    IF items = <<>> THEN <<>>
    ELSE LET n    == Len(items)
             rest == SortedByScore_unstable(SubSeq(items, 1, n - 1))
             x    == items[n]
             k    == Cardinality({i \in 1..Len(rest) :
                                     FLt(x.score, rest[i].score)})
         IN  SubSeq(rest, 1, k) \o <<x>> \o SubSeq(rest, k + 1, Len(rest))

\* sorted(items, key=score, reverse=True): stable, so an item goes behind
\* the items before it whose score is not smaller
RECURSIVE SortedByScore(_)
SortedByScore(items) ==
    IF items = <<>> THEN <<>>
    ELSE LET n    == Len(items)
             rest == SortedByScore(SubSeq(items, 1, n - 1))
             x    == items[n]
             k    == Cardinality({i \in 1..Len(rest) :
                                     ~FLt(rest[i].score, x.score)})
         IN  SubSeq(rest, 1, k) \o <<x>> \o SubSeq(rest, k + 1, Len(rest))

Return(v) == [outcome |-> "return", value |-> v]

Raise(e) == [outcome |-> "raise", exception |-> e]

\* the items of context_scores in the order of the loop
ContextScores(message, history_analysis, time_analysis, preferences_analysis) ==
    [i \in 1..Len(context_rules) |->
        [name |-> context_rules[i].name,
         score |-> ContextScore(context_rules[i].name, context_rules[i].rules,
                                message, history_analysis, time_analysis,
                                preferences_analysis)]]

\* max_possible_score = sum(self.weights.values())
max_possible_score == SumWeights(Len(weights))

\* the confidence of the branch that has a best context
Confidence(primary_score) ==
    FMin(FDiv(primary_score, max_possible_score), F1_0)

\* a faulty secondary list: the close context appended is sorted_contexts[0]
SecondaryContexts_first(sorted_contexts) ==
    IF /\ Len(sorted_contexts) > 1
       /\ FLt(FAbs(FSub(sorted_contexts[1].score, sorted_contexts[2].score)),
              F0_1)
    THEN <<sorted_contexts[1].name>>
    ELSE <<>>

\* a faulty secondary list: the scores count as close below 0.2
SecondaryContexts_wide(sorted_contexts) ==
    IF /\ Len(sorted_contexts) > 1
       /\ FLt(FAbs(FSub(sorted_contexts[1].score, sorted_contexts[2].score)),
              F0_2)
    THEN <<sorted_contexts[2].name>>
    ELSE <<>>

SecondaryContexts(sorted_contexts) ==
    IF /\ Len(sorted_contexts) > 1
       /\ FLt(FAbs(FSub(sorted_contexts[1].score, sorted_contexts[2].score)),
              F0_1)
    THEN <<sorted_contexts[2].name>>
    ELSE <<>>

Reasoning(primary_context, message_analysis, history_analysis, time_analysis) ==
    LET part1 == IF Get(message_analysis, "has_context_keywords", FALSE)
                 THEN << <<1054, 1073, 1085, 1072, 1088, 1091, 1078, 1077,
                           1085, 1099, 32, 1082, 1083, 1102, 1095, 1077,
                           1074, 1099, 1077, 32, 1089, 1083, 1086, 1074,
                           1072, 32, 1082, 1086, 1085, 1090, 1077, 1082,
                           1089, 1090, 1072>> >> ELSE <<>>  \* Обнаружены ключевые слова контекста
        part2 == IF /\ "recent_context" \in DOMAIN history_analysis
                    /\ history_analysis.recent_context = primary_context
                 THEN << <<1057, 1086, 1074, 1087, 1072, 1076, 1072, 1077,
                           1090, 32, 1089, 32, 1085, 1077, 1076, 1072, 1074,
                           1085, 1080, 1084, 32, 1082, 1086, 1085, 1090,
                           1077, 1082, 1089, 1090, 1086, 1084, 32, 1076,
                           1080, 1072, 1083, 1086, 1075, 1072>> >> ELSE <<>>  \* Совпадает с недавним контекстом диалога
        part3 == IF /\ "current_period" \in DOMAIN time_analysis
                    /\ InList(time_analysis.current_period,
                              Get(RulesOf(primary_context),
                                  "time_preference", <<>>))
                 THEN << <<1055, 1086, 1076, 1093, 1086, 1076, 1080, 1090,
                           32, 1076, 1083, 1103, 32, 1090, 1077, 1082, 1091,
                           1097, 1077, 1075, 1086, 32, 1074, 1088, 1077,
                           1084, 1077, 1085, 1080, 32, 1089, 1091, 1090,
                           1086, 1082>> >> ELSE <<>>  \* Подходит для текущего времени суток
        reasoning_parts == part1 \o part2 \o part3
    IN  IF reasoning_parts # <<>> THEN Join(reasoning_parts, <<59, 32>>)  \* ; 
        ELSE <<1054, 1087, 1088, 1077, 1076, 1077, 1083, 1077, 1085, 1086,
               32, 1087, 1086, 32, 1086, 1073, 1097, 1080, 1084, 32, 1087,
               1088, 1080, 1079, 1085, 1072, 1082, 1072, 1084>>  \* Определено по общим признакам

HistoryAnalysis(dialog_history) ==
    IF Truthy(dialog_history) THEN _analyze_history(dialog_history[1])
    ELSE EmptyDict

TimeAnalysis(time_info) ==
    IF Truthy(time_info) THEN _analyze_time(time_info[1]) ELSE EmptyDict

PreferencesAnalysis(user_preferences) ==
    IF Truthy(user_preferences) THEN _analyze_preferences(user_preferences[1])
    ELSE EmptyDict

\* self.context_rules[primary_context] of the reasoning raises KeyError for
\* a context that is not in the table
route_context(message, dialog_history, user_preferences, time_info) ==
    With(_analyze_message(message), LAMBDA message_analysis :
    With(HistoryAnalysis(dialog_history), LAMBDA history_analysis :
    With(TimeAnalysis(time_info), LAMBDA time_analysis :
    With(PreferencesAnalysis(user_preferences), LAMBDA preferences_analysis :
    With(SortedByScore(ContextScores(message, history_analysis, time_analysis,
                                     preferences_analysis)),
         LAMBDA sorted_contexts :
    With(IF sorted_contexts = <<>> THEN "friendly"
         ELSE sorted_contexts[1].name,
         LAMBDA primary_context :
    IF ~HasContext(primary_context) THEN Raise("KeyError")
    ELSE Return([primary_context |-> primary_context,
                 secondary_contexts |-> SecondaryContexts(sorted_contexts),
                 confidence |-> IF sorted_contexts = <<>> THEN F0_5
                                ELSE Confidence(sorted_contexts[1].score),
                 reasoning |-> Reasoning(primary_context, message_analysis,
                                         history_analysis, time_analysis),
                 suggestions |->
                     _generate_suggestions(
                         primary_context, message_analysis,
                         [message |-> message_analysis,
                          history |-> history_analysis,
                          time |-> time_analysis,
                          preferences |-> preferences_analysis])])))))))

\* a faulty compatibility table: professional also lists family
compatibility_extra ==
    [professional |-> <<"friendly", "creative", "family">>,
     family |-> <<"friendly", "romantic">>,
     romantic |-> <<"family", "friendly">>,
     friendly |-> <<"professional", "family", "romantic", "creative">>,
     creative |-> <<"professional", "friendly">>]

\* a faulty compatibility table: creative does not list professional
compatibility_one_way ==
    [professional |-> <<"friendly", "creative">>,
     family |-> <<"friendly", "romantic">>,
     romantic |-> <<"family", "friendly">>,
     friendly |-> <<"professional", "family", "romantic", "creative">>,
     creative |-> <<"friendly">>]

\* the directed compatibility table of validate_context_switch
compatibility ==
    [professional |-> <<"friendly", "creative">>,
     family |-> <<"friendly", "romantic">>,
     romantic |-> <<"family", "friendly">>,
     friendly |-> <<"professional", "family", "romantic", "creative">>,
     creative |-> <<"professional", "friendly">>]

\* the contexts found in the last three history messages
RecentSwitchContexts(dialog_history) == RecentContexts(LastN(dialog_history, 3))

\* a faulty validate_context_switch that looks at the history before the
\* compatibility table
validate_context_switch_history_first(current_context, proposed_context, dialog_history) ==
    IF current_context = proposed_context
    THEN Return(<<TRUE, << <<1058, 1086, 1090, 32, 1078, 1077, 32, 1082,
                             1086, 1085, 1090, 1077, 1082, 1089, 1090>> >> >>)  \* Тот же контекст
    ELSE IF /\ Truthy(dialog_history)
            /\ Len(dialog_history[1]) > 3
            /\ InList(proposed_context, RecentSwitchContexts(dialog_history[1]))
    THEN Return(<<TRUE, << <<1055, 1083, 1072, 1074, 1085, 1099, 1081, 32,
                             1087, 1077, 1088, 1077, 1093, 1086, 1076, 32,
                             1085, 1072, 32, 1086, 1089, 1085, 1086, 1074,
                             1077, 32, 1080, 1089, 1090, 1086, 1088, 1080,
                             1080>> >> >>)  \* Плавный переход на основе истории
    ELSE IF ~InList(proposed_context, Get(compatibility, current_context, <<>>))
    THEN Return(<<FALSE, << <<1056, 1077, 1079, 1082, 1080, 1081, 32, 1087,
                              1077, 1088, 1077, 1093, 1086, 1076, 32, 1089,
                              32>>, current_context,  \* Резкий переход с 
                            <<32, 1085, 1072, 32>>,  \*  на 
                           proposed_context>> >>)
    ELSE Return(<<TRUE, << <<1055, 1077, 1088, 1077, 1093, 1086, 1076, 32,
                             1088, 1072, 1079, 1088, 1077, 1096, 1077, 1085>> >> >>)  \* Переход разрешен

\* the reason of the abrupt case is an f-string: the sequence of its parts
validate_context_switch(current_context, proposed_context, dialog_history) ==
    IF current_context = proposed_context
    THEN Return(<<TRUE, << <<1058, 1086, 1090, 32, 1078, 1077, 32, 1082,
                             1086, 1085, 1090, 1077, 1082, 1089, 1090>> >> >>)  \* Тот же контекст
    ELSE IF ~InList(proposed_context, Get(compatibility, current_context, <<>>))
    THEN Return(<<FALSE, << <<1056, 1077, 1079, 1082, 1080, 1081, 32, 1087,
                              1077, 1088, 1077, 1093, 1086, 1076, 32, 1089,
                              32>>, current_context,  \* Резкий переход с 
                            <<32, 1085, 1072, 32>>,  \*  на 
                           proposed_context>> >>)
    ELSE IF /\ Truthy(dialog_history)
            /\ Len(dialog_history[1]) > 3
            /\ InList(proposed_context, RecentSwitchContexts(dialog_history[1]))
    THEN Return(<<TRUE, << <<1055, 1083, 1072, 1074, 1085, 1099, 1081, 32,
                             1087, 1077, 1088, 1077, 1093, 1086, 1076, 32,
                             1085, 1072, 32, 1086, 1089, 1085, 1086, 1074,
                             1077, 32, 1080, 1089, 1090, 1086, 1088, 1080,
                             1080>> >> >>)  \* Плавный переход на основе истории
    ELSE Return(<<TRUE, << <<1055, 1077, 1088, 1077, 1093, 1086, 1076, 32,
                             1088, 1072, 1079, 1088, 1077, 1096, 1077, 1085>> >> >>)  \* Переход разрешен

(***************************************************************************)
(* CommunicationStyleAnalyzer (style_analyzer.py).                         *)
(***************************************************************************)
\* the double of the literal 0.05 (0x1.999999999999ap-5)
F0_05 ==
    [neg |-> FALSE, man |-> <<3277, 3276, 3276, 3276, 12>>, exp |-> -56]

\* the double of the literal 0.7 (0x1.6666666666666p-1)
F0_7 ==
    [neg |-> FALSE, man |-> <<819, 819, 819, 819, 11>>, exp |-> -52]

\* the double of the literal 0.8 (0x1.999999999999ap-1)
F0_8 ==
    [neg |-> FALSE, man |-> <<3277, 3276, 3276, 3276, 12>>, exp |-> -52]

_load_context_patterns ==
    <<
    [name |-> "professional",
     patterns |->
       [formality_words |-> << <<1091, 1074, 1072, 1078, 1072, 1077, 1084,
                                 1099, 1081>>,  \* уважаемый
                               <<1082, 1086, 1083, 1083, 1077, 1075, 1072>>,  \* коллега
                               <<1087, 1088, 1086, 1096, 1091>>,  \* прошу
                              <<1087, 1088, 1077, 1076, 1083, 1072, 1075,
                                1072, 1102>>,  \* предлагаю
                              <<1089, 1086, 1075, 1083, 1072, 1089, 1086,
                                1074, 1072, 1085, 1086>> >>,  \* согласовано
        emotional_words |-> <<>>,
        humor_words |-> <<>>,
        typical_length |-> "medium",
        common_endings |-> << <<1057, 32, 1091, 1074, 1072, 1078, 1077,
                                1085, 1080, 1077, 1084>>,  \* С уважением
                              <<1041, 1083, 1072, 1075, 1086, 1076, 1072,
                                1088, 1102>>,  \* Благодарю
                             <<1057, 32, 1085, 1072, 1080, 1083, 1091, 1095,
                               1096, 1080, 1084, 1080, 32, 1087, 1086, 1078,
                               1077, 1083, 1072, 1085, 1080, 1103, 1084,
                               1080>> >>]],  \* С наилучшими пожеланиями
    [name |-> "family",
     patterns |->
       [formality_words |-> <<>>,
        emotional_words |-> << <<1083, 1102, 1073, 1083, 1102>>,  \* люблю
                               <<1086, 1073, 1085, 1080, 1084, 1072, 1102>>,  \* обнимаю
                               <<1094, 1077, 1083, 1091, 1102>>,  \* целую
                               <<1089, 1082, 1091, 1095, 1072, 1102>> >>,  \* скучаю
        humor_words |-> << <<1093, 1072, 45, 1093, 1072>>,  \* ха-ха
                           <<1089, 1084, 1077, 1096, 1085, 1086>>,  \* смешно
                           <<1087, 1088, 1080, 1082, 1086, 1083>> >>,  \* прикол
        typical_length |-> "short",
        common_endings |-> << <<1062, 1077, 1083, 1091, 1102>>,  \* Целую
                              <<1054, 1073, 1085, 1080, 1084, 1072, 1102>>,  \* Обнимаю
                              <<1051, 1102, 1073, 1083, 1102>> >>]],  \* Люблю
    [name |-> "romantic",
     patterns |->
       [formality_words |-> <<>>,
        emotional_words |-> << <<1083, 1102, 1073, 1083, 1102>>,  \* люблю
                               <<1086, 1073, 1086, 1078, 1072, 1102>>,  \* обожаю
                               <<1085, 1077, 1078, 1085, 1099, 1081>>,  \* нежный
                               <<1088, 1086, 1084, 1072, 1085, 1090, 1080,
                                 1082>>,  \* романтик
                              <<1084, 1077, 1095, 1090, 1072>> >>,  \* мечта
        humor_words |-> <<>>,
        typical_length |-> "medium",
        common_endings |-> << <<1062, 1077, 1083, 1091, 1102>>,  \* Целую
                              <<1054, 1073, 1085, 1080, 1084, 1072, 1102>>,  \* Обнимаю
                              <<1058, 1074, 1086, 1081, 47, 1058, 1074,
                                1086, 1103>> >>]],  \* Твой/Твоя
    [name |-> "friendly",
     patterns |->
       [formality_words |-> <<>>,
        emotional_words |-> << <<1082, 1083, 1072, 1089, 1089>>,  \* класс
                               <<1086, 1090, 1083, 1080, 1095, 1085, 1086>>,  \* отлично
                               <<1089, 1091, 1087, 1077, 1088>>,  \* супер
                               <<1082, 1088, 1091, 1090, 1086>> >>,  \* круто
        humor_words |-> << <<1083, 1086, 1083>>,  \* лол
                           <<1082, 1077, 1082>>,  \* кек
                           <<1088, 1078, 1072, 1082, 1072>>,  \* ржака
                           <<1087, 1088, 1080, 1082, 1086, 1083>> >>,  \* прикол
        typical_length |-> "short",
        common_endings |-> << <<1055, 1086, 1082, 1072>>,  \* Пока
                              <<1044, 1086, 32, 1089, 1074, 1103, 1079, 1080>>,  \* До связи
                              <<1059, 1076, 1072, 1095, 1080>> >>]],  \* Удачи
    [name |-> "creative",
     patterns |->
       [formality_words |-> <<>>,
        emotional_words |-> << <<1074, 1076, 1086, 1093, 1085, 1086, 1074,
                                 1077, 1085, 1080, 1077>>,  \* вдохновение
                               <<1082, 1088, 1077, 1072, 1090, 1080, 1074>>,  \* креатив
                               <<1090, 1074, 1086, 1088, 1095, 1077, 1089,
                                 1090, 1074, 1086>> >>,  \* творчество
        humor_words |-> << <<1080, 1088, 1086, 1085, 1080, 1103>>,  \* ирония
                           <<1089, 1072, 1088, 1082, 1072, 1079, 1084>>,  \* сарказм
                           <<1096, 1091, 1090, 1082, 1072>> >>,  \* шутка
        typical_length |-> "long",
        common_endings |-> << <<1058, 1074, 1086, 1088, 1095, 1077, 1089,
                                1082, 1080, 1093, 32, 1091, 1089, 1087,
                                1077, 1093, 1086, 1074>>,  \* Творческих успехов
                              <<1042, 1076, 1086, 1093, 1085, 1086, 1074,
                                1077, 1085, 1080, 1103>> >>]]  \* Вдохновения
    >>

\* a faulty work_keywords: the list lacks the deadline word
work_keywords_short ==
    << <<1088, 1072, 1073, 1086, 1090, 1072>>,  \* работа
       <<1087, 1088, 1086, 1077, 1082, 1090>>,  \* проект
       <<1079, 1072, 1076, 1072, 1095, 1072>>,  \* задача
       <<1074, 1089, 1090, 1088, 1077, 1095, 1072>>,  \* встреча
       <<1082, 1086, 1083, 1083, 1077, 1075, 1072>>,  \* коллега
      <<1085, 1072, 1095, 1072, 1083, 1100, 1085, 1080, 1082>>,  \* начальник
      <<1086, 1090, 1095, 1077, 1090>>,  \* отчет
      <<1087, 1088, 1077, 1079, 1077, 1085, 1090, 1072, 1094, 1080, 1103>> >>  \* презентация

work_keywords ==
    << <<1088, 1072, 1073, 1086, 1090, 1072>>,  \* работа
       <<1087, 1088, 1086, 1077, 1082, 1090>>,  \* проект
       <<1079, 1072, 1076, 1072, 1095, 1072>>,  \* задача
       <<1074, 1089, 1090, 1088, 1077, 1095, 1072>>,  \* встреча
       <<1082, 1086, 1083, 1083, 1077, 1075, 1072>>,  \* коллега
      <<1085, 1072, 1095, 1072, 1083, 1100, 1085, 1080, 1082>>,  \* начальник
      <<1076, 1077, 1076, 1083, 1072, 1081, 1085>>,  \* дедлайн
      <<1086, 1090, 1095, 1077, 1090>>,  \* отчет
      <<1087, 1088, 1077, 1079, 1077, 1085, 1090, 1072, 1094, 1080, 1103>> >>  \* презентация

family_keywords ==
    << <<1084, 1072, 1084, 1072>>,  \* мама
       <<1087, 1072, 1087, 1072>>,  \* папа
       <<1088, 1086, 1076, 1080, 1090, 1077, 1083, 1080>>,  \* родители
       <<1073, 1088, 1072, 1090>>,  \* брат
       <<1089, 1077, 1089, 1090, 1088, 1072>>,  \* сестра
      <<1089, 1077, 1084, 1100, 1103>>,  \* семья
      <<1088, 1086, 1076, 1085, 1099, 1077>>,  \* родные
      <<1076, 1077, 1090, 1080>>,  \* дети
      <<1074, 1085, 1091, 1082, 1080>> >>  \* внуки

romantic_keywords ==
    << <<1083, 1102, 1073, 1083, 1102>>,  \* люблю
       <<1086, 1073, 1086, 1078, 1072, 1102>>,  \* обожаю
       <<1076, 1086, 1088, 1086, 1075, 1086, 1081>>,  \* дорогой
       <<1084, 1080, 1083, 1099, 1081>>,  \* милый
      <<1083, 1102, 1073, 1080, 1084, 1099, 1081>>,  \* любимый
      <<1088, 1086, 1084, 1072, 1085, 1090, 1080, 1082, 1072>>,  \* романтика
      <<1086, 1090, 1085, 1086, 1096, 1077, 1085, 1080, 1103>>,  \* отношения
      <<1095, 1091, 1074, 1089, 1090, 1074, 1072>>,  \* чувства
      <<1089, 1077, 1088, 1076, 1094, 1077>> >>  \* сердце

romantic_emojis ==
    << <<10084, 65039>>,  \* ❤️
       <<128149>>,  \* 💕
       <<128536>>,  \* 😘
       <<128139>>,  \* 💋
      <<128525>> >>  \* 😍

formal_words ==
    << <<1091, 1074, 1072, 1078, 1072, 1077, 1084, 1099, 1081>>,  \* уважаемый
       <<1087, 1088, 1086, 1096, 1091>>,  \* прошу
       <<1087, 1088, 1077, 1076, 1083, 1072, 1075, 1072, 1102>>,  \* предлагаю
       <<1089, 1086, 1075, 1083, 1072, 1089, 1086, 1074, 1072, 1085, 1086>>,  \* согласовано
      <<1076, 1086, 1082, 1091, 1084, 1077, 1085, 1090>>,  \* документ
      <<1076, 1086, 1075, 1086, 1074, 1086, 1088>>,  \* договор
      <<1089, 1086, 1090, 1088, 1091, 1076, 1085, 1080, 1095, 1077, 1089,
        1090, 1074, 1086>>,  \* сотрудничество
      <<1086, 1092, 1080, 1094, 1080, 1072, 1083, 1100, 1085, 1086>> >>  \* официально

emotional_words ==
    << <<1083, 1102, 1073, 1083, 1102>>,  \* люблю
       <<1086, 1073, 1086, 1078, 1072, 1102>>,  \* обожаю
       <<1085, 1077, 1085, 1072, 1074, 1080, 1078, 1091>>,  \* ненавижу
       <<1079, 1083, 1102, 1089, 1100>>,  \* злюсь
      <<1088, 1072, 1076, 1091, 1102, 1089, 1100>>,  \* радуюсь
      <<1075, 1088, 1091, 1097, 1091>>,  \* грущу
      <<1074, 1086, 1083, 1085, 1091, 1102, 1089, 1100>>,  \* волнуюсь
      <<1073, 1077, 1089, 1087, 1086, 1082, 1086, 1102, 1089, 1100>>,  \* беспокоюсь
      <<1074, 1086, 1089, 1093, 1080, 1097, 1072, 1102, 1089, 1100>> >>  \* восхищаюсь

emotional_emojis ==
    << <<10084, 65039>>,  \* ❤️
       <<128525>>,  \* 😍
       <<128546>>,  \* 😢
       <<128514>>,  \* 😂
       <<128545>>,  \* 😡
      <<129392>>,  \* 🥰
      <<128557>> >>  \* 😭

humor_indicators ==
    << <<1093, 1072, 45, 1093, 1072>>,  \* ха-ха
       <<1093, 1077, 45, 1093, 1077>>,  \* хе-хе
       <<1083, 1086, 1083>>,  \* лол
       <<1082, 1077, 1082>>,  \* кек
       <<1089, 1084, 1077, 1096, 1085, 1086>>,  \* смешно
      <<1087, 1088, 1080, 1082, 1086, 1083>>,  \* прикол
      <<1096, 1091, 1090, 1082, 1072>>,  \* шутка
      <<1102, 1084, 1086, 1088>>,  \* юмор
      <<1072, 1085, 1077, 1082, 1076, 1086, 1090>>,  \* анекдот
      <<128514>>,  \* 😂
      <<129315>>,  \* 🤣
      <<128516>> >>  \* 😄

\* the start positions of the words of s.split()
WordStarts(s) ==
    {i \in 1..Len(s) : ~IsSpace(s[i]) /\ (i = 1 \/ IsSpace(s[i - 1]))}

\* the last position of the word that starts at i
WordEnd(s, i) ==
    CHOOSE j \in i..Len(s) :
        /\ \A k \in i..j : ~IsSpace(s[k])
        /\ j = Len(s) \/ IsSpace(s[j + 1])

\* s.split()
Split(s) ==
    LET starts == WordStarts(s)
        nth(k) == CHOOSE i \in starts : Cardinality({j \in starts : j < i}) = k - 1
    IN  [k \in 1..Cardinality(starts) |-> SubSeq(s, nth(k), WordEnd(s, nth(k)))]

\* the number of elements of lst that satisfy the test `x in text`
CountContained(lst, text) ==
    Cardinality({i \in 1..Len(lst) : Contains(lst[i], text)})

\* acc after n statements `acc += step`
RECURSIVE AddTimes(_, _, _)
AddTimes(acc, step, n) ==
    IF n = 0 THEN acc ELSE AddTimes(FAdd(acc, step), step, n - 1)

\* the score of one context in the loop of analyze_context
PatternScore(patterns, text_lower) ==
    AddTimes(
        AddTimes(
            AddTimes(F0_0, F0_3,
                     CountContained(patterns.formality_words, text_lower)),
            F0_2, CountContained(patterns.emotional_words, text_lower)),
        F0_2, CountContained(patterns.humor_words, text_lower))

\* max(context_scores.items(), key=score)[0]: the first item with the
\* largest score
FirstMax(items) ==
    items[CHOOSE i \in 1..Len(items) :
              /\ \A m \in 1..Len(items) : FLe(items[m].score, items[i].score)
              /\ \A m \in 1..(i - 1) : FLt(items[m].score, items[i].score)].name

\* any(keyword in text.lower() for keyword in keywords)
AnyContained(keywords, text) == \E i \in 1..Len(keywords) : Contains(keywords[i], text)

\* the work test on the text as written, without lower-casing
_is_work_related_cased(text) == AnyContained(work_keywords, text)

_is_work_related(text) == AnyContained(work_keywords, Lower(text))

_is_family_related(text) == AnyContained(family_keywords, Lower(text))

_is_romantic_related(text) ==
    LET has_keywords == AnyContained(romantic_keywords, Lower(text))
        has_emojis   == AnyContained(romantic_emojis, text)
    IN  has_keywords \/ has_emojis

\* sum(1 for word in words if word in lst)
CountIn(words, lst) ==
    Cardinality({i \in 1..Len(words) : InList(words[i], lst)})

_calculate_formality(text) ==
    With(Split(Lower(text)), LAMBDA words :
      IF words = <<>> THEN F0_0
      ELSE FMin(FMul(FDiv(FFromInt(CountIn(words, formal_words)),
                          FFromInt(Len(words))),
                     FFromInt(3)), F1_0))

_calculate_emotionality(text) ==
    LET emoji_count == CountContained(emotional_emojis, text)
        exclamation_count == Cardinality({i \in 1..Len(text) : text[i] = 33})
    IN  With(Split(Lower(text)), LAMBDA words :
        With(IF words # <<>>
             THEN FAdd(F0_0,
                       FMul(FDiv(FFromInt(CountIn(words, emotional_words)),
                                 FFromInt(Len(words))), FFromInt(2)))
             ELSE F0_0,
             LAMBDA s1 :
        With(FAdd(s1, FMul(FFromInt(emoji_count), F0_1)), LAMBDA s2 :
        With(FAdd(s2, FMin(FMul(FFromInt(exclamation_count), F0_05), F0_3)),
             LAMBDA s3 :
        FMin(s3, F1_0)))))

_calculate_humor_level(text) ==
    FMin(AddTimes(F0_0, F0_2, CountContained(humor_indicators, Lower(text))),
         F1_0)

_calculate_emoji_frequency(text) ==
    IF text = <<>> THEN F0_0
    ELSE FMin(FMul(FDiv(FFromInt(_count_emojis(text)), FFromInt(Len(text))),
                   FFromInt(100)), F1_0)

\* a faulty _classify_length whose first bound is inclusive
_classify_length_inclusive(text) ==
    LET word_count == Len(Split(text))
    IN  IF word_count <= 5 THEN "short"
        ELSE IF word_count < 20 THEN "medium"
        ELSE "long"

_classify_length(text) ==
    LET word_count == Len(Split(text))
    IN  IF word_count < 5 THEN "short"
        ELSE IF word_count < 20 THEN "medium"
        ELSE "long"

\* the dictionary suggestions of _suggest_response_style
response_styles ==
    [
     professional |->
         [tone |-> "formal", emoji_limit |-> 0, length |-> "medium",
          key_phrases |-> << <<1041, 1083, 1072, 1075, 1086, 1076,
                               1072, 1088, 1102>>,  \* Благодарю
                             <<1057, 1086, 1075, 1083, 1072, 1089,
                               1086, 1074, 1072, 1085, 1086>>,  \* Согласовано
                             <<1055, 1088, 1077, 1076, 1083, 1072,
                               1075, 1072, 1102>>,  \* Предлагаю
                            <<1055, 1088, 1086, 1096, 1091, 32, 1088,
                              1072, 1089, 1089, 1084, 1086, 1090,
                              1088, 1077, 1090, 1100>> >>],  \* Прошу рассмотреть
     family |->
         [tone |-> "warm", emoji_limit |-> 3, length |-> "short",
          key_phrases |-> << <<1062, 1077, 1083, 1091, 1102>>,  \* Целую
                             <<1054, 1073, 1085, 1080, 1084, 1072,
                               1102>>,  \* Обнимаю
                             <<1051, 1102, 1073, 1083, 1102>>,  \* Люблю
                            <<1057, 1082, 1091, 1095, 1072, 1102>> >>],  \* Скучаю
     romantic |->
         [tone |-> "tender", emoji_limit |-> 2, length |-> "medium",
          key_phrases |-> << <<1052, 1080, 1083, 1099, 1081>>,  \* Милый
                             <<1044, 1086, 1088, 1086, 1075, 1086,
                               1081>>,  \* Дорогой
                             <<1051, 1102, 1073, 1083, 1102>>,  \* Люблю
                            <<1057, 1082, 1091, 1095, 1072, 1102, 32,
                              1087, 1086, 32, 1090, 1077, 1073, 1077>> >>],  \* Скучаю по тебе
     friendly |->
         [tone |-> "casual", emoji_limit |-> 3, length |-> "short",
          key_phrases |-> << <<1055, 1088, 1080, 1074, 1077, 1090>>,  \* Привет
                             <<1050, 1072, 1082, 32, 1076, 1077, 1083,
                               1072>>,  \* Как дела
                             <<1063, 1090, 1086, 32, 1085, 1086, 1074,
                               1086, 1075, 1086>>,  \* Что нового
                            <<1044, 1072, 1074, 1072, 1081, 32, 1089,
                              1086, 1079, 1074, 1086, 1085, 1080,
                              1084, 1089, 1103>> >>],  \* Давай созвонимся
     creative |->
         [tone |-> "expressive", emoji_limit |-> 2, length |-> "long",
          key_phrases |-> << <<1048, 1085, 1090, 1077, 1088, 1077,
                               1089, 1085, 1086>>,  \* Интересно
                             <<1050, 1088, 1077, 1072, 1090, 1080,
                               1074, 1085, 1086>>,  \* Креативно
                            <<1042, 1076, 1086, 1093, 1085, 1086,
                              1074, 1083, 1103, 1102, 1097, 1077>>,  \* Вдохновляюще
                            <<1058, 1074, 1086, 1088, 1095, 1077,
                              1089, 1082, 1080>> >>]  \* Творчески
    ]

\* a faulty _suggest_response_style that looks at the formality first
_suggest_response_style_formal_first(context, characteristics) ==
    With(Get(response_styles, context, response_styles.friendly),
         LAMBDA base_suggestion :
    With(IF FLt(F0_7, characteristics.formality)
         THEN [base_suggestion EXCEPT !.tone = "very_formal"]
         ELSE IF FLt(F0_7, characteristics.emotionality)
         THEN [base_suggestion EXCEPT !.tone = "emotional"]
         ELSE base_suggestion,
         LAMBDA a1 :
    IF FLt(F0_5, characteristics.emoji_frequency)
    THEN [a1 EXCEPT !.emoji_limit = MinOf(a1.emoji_limit + 2, 5)]
    ELSE a1))

_suggest_response_style(context, characteristics) ==
    With(Get(response_styles, context, response_styles.friendly),
         LAMBDA base_suggestion :
    With(IF FLt(F0_7, characteristics.emotionality)
         THEN [base_suggestion EXCEPT !.tone = "emotional"]
         ELSE IF FLt(F0_7, characteristics.formality)
         THEN [base_suggestion EXCEPT !.tone = "very_formal"]
         ELSE base_suggestion,
         LAMBDA a1 :
    IF FLt(F0_5, characteristics.emoji_frequency)
    THEN [a1 EXCEPT !.emoji_limit = MinOf(a1.emoji_limit + 2, 5)]
    ELSE a1))

\* dialog_context in self.context_patterns
HasPattern(name) ==
    \E i \in 1..Len(context_patterns) : context_patterns[i].name = name

\* context_scores of analyze_context: the items in the order of the loop
PatternScores(text_lower) ==
    [i \in 1..Len(context_patterns) |->
        [name |-> context_patterns[i].name,
         score |-> PatternScore(context_patterns[i].patterns, text_lower)]]

\* the context chosen from the scores
ScoredContext(context_scores) ==
    IF context_scores # <<>> THEN FirstMax(context_scores) ELSE "friendly"

analyze_context(text, dialog_context) ==
    IF ~Truthy(text)
    THEN [detected_context |-> "unknown", confidence |-> F0_0,
          suggested_contexts |-> <<>>]
    ELSE With(IF dialog_context # None /\ dialog_context[1] # ""
                 /\ HasPattern(dialog_context[1])
              THEN dialog_context[1]
              ELSE ScoredContext(PatternScores(Lower(text[1]))),
              LAMBDA scored :
         With(IF _is_work_related(text[1]) THEN "professional"
              ELSE IF _is_family_related(text[1]) THEN "family"
              ELSE IF _is_romantic_related(text[1]) THEN "romantic"
              ELSE scored,
              LAMBDA primary_context :
         With([formality |-> _calculate_formality(text[1]),
               emotionality |-> _calculate_emotionality(text[1]),
               humor_level |-> _calculate_humor_level(text[1]),
               emoji_frequency |-> _calculate_emoji_frequency(text[1]),
               message_length |-> _classify_length(text[1]),
               contains_questions |-> Contains(<<63>>, text[1]),
               contains_exclamations |-> Contains(<<33>>, text[1]),
               word_count |-> Len(Split(text[1]))],
              LAMBDA characteristics :
         [detected_context |-> primary_context,
          confidence |-> F0_8,
          characteristics |-> characteristics,
          suggested_responses |->
              _suggest_response_style(primary_context, characteristics)])))

(***************************************************************************)
(* The style signature of a set of messages.                               *)
(***************************************************************************)
stop_words ==
    {<<1101, 1090, 1086>>,  \* это
     <<1082, 1072, 1082>>,  \* как
     <<1090, 1072, 1082>>,  \* так
     <<1080>>,  \* и
     <<1074>>,  \* в
     <<1085, 1072, 1076>>,  \* над
     <<1082>>,  \* к
     <<1076, 1086>>,  \* до
     <<1085, 1077>>,  \* не
     <<1085, 1072>>,  \* на
     <<1085, 1086>>,  \* но
     <<1079, 1072>>,  \* за
     <<1090, 1086>>,  \* то
     <<1089>>,  \* с
     <<1083, 1080>>,  \* ли
     <<1072>>,  \* а
     <<1074, 1086>>,  \* во
     <<1086, 1090>>,  \* от
     <<1089, 1086>>,  \* со
     <<1076, 1083, 1103>>,  \* для
     <<1086>>}  \* о

\* Counter(lst).most_common(n): the distinct elements with their counts by
\* falling count, the one seen first before the others of its count
most_common(lst, n) ==
    With({i \in 1..Len(lst) : \A j \in 1..(i - 1) : lst[j] # lst[i]},
         LAMBDA firsts :
    With([i \in firsts |-> CountOf(lst[i], lst)],
         LAMBDA counts :
    [r \in 1..MinOf(n, Cardinality(firsts)) |->
        With(CHOOSE i \in firsts :
                 Cardinality({k \in firsts :
                                 \/ counts[k] > counts[i]
                                 \/ counts[k] = counts[i] /\ k < i}) = r - 1,
             LAMBDA i : <<lst[i], counts[i]>>)]))

\* \w of the regular expressions on one code point: digits, the underscore,
\* the Latin and the Cyrillic letters
IsWordChar(c) ==
    \/ c >= 48 /\ c <= 57
    \/ c >= 65 /\ c <= 90
    \/ c = 95
    \/ c >= 97 /\ c <= 122
    \/ c >= 1024 /\ c <= 1153

\* re.findall(r'\b[а-яё]{3,}\b', s): the maximal runs of word characters
\* that are lower-case Cyrillic letters only and at least three of them
FindWords(s) ==
    With({i \in 1..Len(s) :
             /\ IsWordChar(s[i])
             /\ i = 1 \/ ~IsWordChar(s[i - 1])
             /\ \E j \in (i + 2)..Len(s) :
                    /\ \A k \in i..j : (s[k] >= 1072 /\ s[k] <= 1103)
                                       \/ s[k] = 1105
                    /\ j = Len(s) \/ ~IsWordChar(s[j + 1])},
         LAMBDA starts :
    [n \in 1..Cardinality(starts) |->
        With(CHOOSE i \in starts : Cardinality({j \in starts : j < i}) = n - 1,
             LAMBDA i :
                 SubSeq(s, i, CHOOSE j \in i..Len(s) :
                                  /\ \A k \in i..j : IsWordChar(s[k])
                                  /\ j = Len(s) \/ ~IsWordChar(s[j + 1])))])

_extract_common_words(messages) ==
    With(most_common(
             Join([m \in 1..Len(messages) |->
                      SelectSeq(FindWords(Lower(messages[m])),
                                LAMBDA word : word \notin stop_words)],
                  <<>>), 20),
         LAMBDA word_counts :
    [i \in 1..Len(word_counts) |-> word_counts[i][1]])

\* the phrases of two adjacent words that one message adds to the list
PhrasesOf(msg) ==
    With(Split(Lower(msg)),
         LAMBDA words :
    SelectSeq([i \in 1..(Len(words) - 1) |->
                  words[i] \o <<32>> \o words[i + 1]],
              LAMBDA phrase : Len(phrase) > 5 /\ phrase \notin stop_words))

_extract_common_phrases(messages) ==
    With(SelectSeq(most_common(
                       Join([m \in 1..Len(messages) |->
                                PhrasesOf(messages[m])], <<>>), 10),
                   LAMBDA item : item[2] > 1),
         LAMBDA repeated :
    [i \in 1..Len(repeated) |-> repeated[i][1]])

\* the bands with the words of the two upper ones exchanged
EmotionalityBand_exchanged(emotionality) ==
    IF FLt(F0_7, emotionality)
    THEN <<1091, 1084, 1077, 1088, 1077, 1085, 1085, 1086, 32, 1101, 1084,
           1086, 1094, 1080, 1086, 1085, 1072, 1083, 1100, 1085, 1099,
           1081>>  \* умеренно эмоциональный
    ELSE IF FLt(F0_3, emotionality)
    THEN <<1101, 1084, 1086, 1094, 1080, 1086, 1085, 1072, 1083, 1100, 1085,
           1099, 1081>>  \* эмоциональный
    ELSE <<1089, 1076, 1077, 1088, 1078, 1072, 1085, 1085, 1099, 1081>>  \* сдержанный

EmotionalityBand(emotionality) ==
    IF FLt(F0_7, emotionality)
    THEN <<1101, 1084, 1086, 1094, 1080, 1086, 1085, 1072, 1083, 1100, 1085,
           1099, 1081>>  \* эмоциональный
    ELSE IF FLt(F0_3, emotionality)
    THEN <<1091, 1084, 1077, 1088, 1077, 1085, 1085, 1086, 32, 1101, 1084,
           1086, 1094, 1080, 1086, 1085, 1072, 1083, 1100, 1085, 1099,
           1081>>  \* умеренно эмоциональный
    ELSE <<1089, 1076, 1077, 1088, 1078, 1072, 1085, 1085, 1099, 1081>>  \* сдержанный

_describe_style(characteristics) ==
    IF characteristics = EmptyDict
    THEN <<1053, 1077, 1080, 1079, 1074, 1077, 1089, 1090, 1085, 1099, 1081,
           32, 1089, 1090, 1080, 1083, 1100>>  \* Неизвестный стиль
    ELSE With(Get(characteristics, "formality", F0_0),
              LAMBDA formality :
         With(Get(characteristics, "word_count", F0_0),
              LAMBDA avg_length :
         Join(<<IF FLt(F0_7, formality)
                THEN <<1092, 1086, 1088, 1084, 1072, 1083, 1100, 1085, 1099,
                       1081>>  \* формальный
                ELSE IF FLt(F0_3, formality)
                THEN <<1091, 1084, 1077, 1088, 1077, 1085, 1085, 1086, 32,
                       1092, 1086, 1088, 1084, 1072, 1083, 1100, 1085, 1099,
                       1081>>  \* умеренно формальный
                ELSE <<1085, 1077, 1092, 1086, 1088, 1084, 1072, 1083, 1100,
                       1085, 1099, 1081>>,  \* неформальный
                EmotionalityBand(Get(characteristics, "emotionality", F0_0)),
                IF FLt(FFromInt(15), avg_length)
                THEN <<1088, 1072, 1079, 1074, 1077, 1088, 1085, 1091, 1090,
                       1099, 1081>>  \* развернутый
                ELSE IF FLt(FFromInt(5), avg_length)
                THEN <<1091, 1084, 1077, 1088, 1077, 1085, 1085, 1099, 1081,
                       32, 1087, 1086, 32, 1076, 1083, 1080, 1085, 1077>>  \* умеренный по длине
                ELSE <<1083, 1072, 1082, 1086, 1085, 1080, 1095, 1085, 1099,
                       1081>> >>,  \* лаконичный
              <<44, 32>>)))

\* np.mean of at most seven values: the sum from left to right, divided by
\* the number of values
RECURSIVE SumFrom(_, _, _)
SumFrom(values, i, acc) ==
    IF i > Len(values) THEN acc
    ELSE SumFrom(values, i + 1, FAdd(acc, values[i]))

Mean(values) == FDiv(SumFrom(values, 1, F0_0), FFromInt(Len(values)))

\* avg_characteristics: the mean of every characteristic that is an int, a
\* bool or a float, which is every one but message_length
AverageCharacteristics(all_characteristics) ==
    [key \in {"formality", "emotionality", "humor_level", "emoji_frequency",
              "contains_questions", "contains_exclamations", "word_count"} |->
        Mean([i \in 1..Len(all_characteristics) |->
                 IF key \in {"contains_questions", "contains_exclamations"}
                 THEN FFromInt(IF all_characteristics[i][key] THEN 1 ELSE 0)
                 ELSE IF key = "word_count"
                 THEN FFromInt(all_characteristics[i][key])
                 ELSE all_characteristics[i][key]])]

\* extract_style_signature after its test for the empty list
SignatureOf(messages, context) ==
    With([i \in 1..Len(messages) |->
             analyze_context(Some(messages[i]), Some(context))],
         LAMBDA analyses :
    IF \E i \in 1..Len(analyses) :
           "characteristics" \notin DOMAIN analyses[i]
    THEN Raise("KeyError")
    ELSE With(IF analyses = <<>> THEN EmptyDict
              ELSE AverageCharacteristics(
                       [i \in 1..Len(analyses) |->
                           analyses[i].characteristics]),
              LAMBDA avg_characteristics :
         Return([context |-> context,
                 avg_characteristics |-> avg_characteristics,
                 common_words |-> Take(_extract_common_words(messages), 10),
                 common_phrases |->
                     Take(_extract_common_phrases(messages), 5),
                 message_count |-> Len(messages),
                 style_description |->
                     _describe_style(avg_characteristics)])))

\* the signature without the test for the empty list
extract_style_signature_unguarded(messages, context) ==
    SignatureOf(messages, context)

extract_style_signature(messages, context) ==
    IF messages = <<>> THEN Return(EmptyDict)
    ELSE SignatureOf(messages, context)

(***************************************************************************)
(* The router's list of possible contexts.                                 *)
(***************************************************************************)
_get_context_description(context) ==
    IF context = "professional"
    THEN <<1044, 1077, 1083, 1086, 1074, 1086, 1077, 44, 32, 1092, 1086,
           1088, 1084, 1072, 1083, 1100, 1085, 1086, 1077, 32, 1086, 1073,
           1097, 1077, 1085, 1080, 1077>>  \* Деловое, формальное общение
    ELSE IF context = "family"
    THEN <<1057, 1077, 1084, 1077, 1081, 1085, 1086, 1077, 44, 32, 1085,
           1077, 1092, 1086, 1088, 1084, 1072, 1083, 1100, 1085, 1086, 1077,
           32, 1086, 1073, 1097, 1077, 1085, 1080, 1077>>  \* Семейное, неформальное общение
    ELSE IF context = "romantic"
    THEN <<1056, 1086, 1084, 1072, 1085, 1090, 1080, 1095, 1077, 1089, 1082,
           1086, 1077, 32, 1086, 1073, 1097, 1077, 1085, 1080, 1077>>  \* Романтическое общение
    ELSE IF context = "friendly"
    THEN <<1044, 1088, 1091, 1078, 1077, 1089, 1082, 1086, 1077, 32, 1086,
           1073, 1097, 1077, 1085, 1080, 1077>>  \* Дружеское общение
    ELSE IF context = "creative"
    THEN <<1050, 1088, 1077, 1072, 1090, 1080, 1074, 1085, 1086, 1077, 44,
           32, 1090, 1074, 1086, 1088, 1095, 1077, 1089, 1082, 1086, 1077,
           32, 1086, 1073, 1097, 1077, 1085, 1080, 1077>>  \* Креативное, творческое общение
    ELSE <<1054, 1073, 1097, 1077, 1077, 32, 1086, 1073, 1097, 1077, 1085,
           1080, 1077>>  \* Общее общение

\* the entry of one context before the test `score > 0`
SuggestionOf(context_name, rules, message, text_lower) ==
    With(SelectSeq(rules.keywords, LAMBDA keyword : Contains(keyword, text_lower)),
         LAMBDA matched_keywords :
    [context |-> context_name,
     score |-> AddTimes(AddTimes(F0_0, F0_3, Len(matched_keywords)), F0_2,
                        IF "emojis" \in DOMAIN rules
                        THEN Len(SelectSeq(rules.emojis,
                                 LAMBDA emoji : Contains(emoji, message)))
                        ELSE 0),
     matched_keywords |-> Take(matched_keywords, 3),
     description |-> _get_context_description(context_name)])

suggest_multiple_contexts(message, num_suggestions) ==
    IF ~Truthy(message) THEN <<>>
    ELSE Take(SortedByScore(
                  SelectSeq([i \in 1..Len(context_rules) |->
                                SuggestionOf(context_rules[i].name,
                                             context_rules[i].rules,
                                             message[1], Lower(message[1]))],
                            LAMBDA suggestion : FLt(F0_0, suggestion.score))),
              num_suggestions)

(***************************************************************************)
(* The calls that are made.  A message is a sequence of at most MaxWords   *)
(* words of the vocabulary joined by spaces (the words in vocabulary       *)
(* order, repetitions included); a history is a list of one-word messages. *)
(***************************************************************************)
MaxWords == 3

MaxHistory == 4

MaxRouteHistory == 2

MaxLongHistory == 6

MaxCorpus == 2

MaxTenths == 10

MaxSuggestions == 3

MaxInProgress == 2

\* the most words of a text made of the words of style
MaxStyleWords == 3

\* the most repetitions of a word in a text made for its length
MaxLengthWords == 21

\* дедлайн, Работа, проект, встреча, коллега, подруга, кафе, обнимаю,
\* люблю, мама, привет
Vocabulary ==
    << <<1076, 1077, 1076, 1083, 1072, 1081, 1085>>,  \* дедлайн
      <<1056, 1072, 1073, 1086, 1090, 1072>>,
      <<1087, 1088, 1086, 1077, 1082, 1090>>,  \* проект
      <<1074, 1089, 1090, 1088, 1077, 1095, 1072>>,  \* встреча
      <<1082, 1086, 1083, 1083, 1077, 1075, 1072>>,  \* коллега
      <<1087, 1086, 1076, 1088, 1091, 1075, 1072>>,  \* подруга
      <<1082, 1072, 1092, 1077>>,  \* кафе
      <<1086, 1073, 1085, 1080, 1084, 1072, 1102>>,  \* обнимаю
      <<1083, 1102, 1073, 1083, 1102>>,  \* люблю
      <<1084, 1072, 1084, 1072>>,  \* мама
      <<1087, 1088, 1080, 1074, 1077, 1090>>>>

\* the texts of k words
Texts(k) ==
    {Join([i \in 1..k |-> Vocabulary[s[i]]], <<32>>) :
        s \in {f \in [1..k -> 1..Len(Vocabulary)] :
                  \A i \in 1..(k - 1) : f[i] <= f[i + 1]}}

Messages(n) == UNION {Texts(k) : k \in 0..n}

\* the lists of at most n entries taken from the set of texts
Lists(entries, n) == UNION {[1..k -> entries] : k \in 0..n}

Optional(S) == {None} \cup {Some(v) : v \in S}

ContextNames == {"professional", "family", "romantic", "friendly", "creative"}

PreferenceInputs ==
    {None, Some(EmptyDict),
     Some([fav_contexts |-> <<"professional">>]),
     Some([avoid_contexts |-> <<"professional">>]),
     Some([fav_contexts |-> <<"family", "friendly">>,
           avoid_contexts |-> <<"creative">>,
           communication_style |-> "brief"])}

TimeInputs ==
    {None, Some(EmptyDict), Some([weekday |-> 6]), Some([hour |-> 9]),
     Some([hour |-> 20, weekday |-> 2]),
     Some([hour |-> 2, weekday |-> 6, is_holiday |-> TRUE])}

\* the messages of the calls that have optional inputs: empty, a
\* professional, a friendly and a family keyword, and a professional
\* avoid-keyword
ShortMessages ==
    Optional({<<>>, Vocabulary[1], Vocabulary[7], Vocabulary[8],
              Vocabulary[10]})

\* "Привет, дорогой, очень скучаю" followed by a red heart (U+2764 U+FE0F)
RomanticExample ==
    <<1055, 1088, 1080, 1074, 1077, 1090, 44, 32, 1076, 1086, 1088, 1086,
      1075, 1086, 1081, 44, 32, 1086, 1095, 1077, 1085, 1100, 32, 1089, 1082,
      1091, 1095, 1072, 1102, 32, 10084, 65039>>

\* every message alone; the example with no history and with an empty one;
\* the short messages with every history of at most MaxRouteHistory
\* entries; a friendly message with every history of more than five and at
\* most MaxLongHistory entries; a friendly message at every hour of the
\* day, on a working day and on a Sunday; a word of each of four contexts
\* and of none with "!", "?" and "?!" at night, in the morning and without
\* time; the short messages with every
\* combination of preferences and time and no history, an empty history or
\* a history of one professional message
RouteCalls ==
    {[op |-> "route_context", message |-> m, dialog_history |-> None,
      user_preferences |-> None, time_info |-> None] :
        m \in Optional(Messages(MaxWords))}
    \cup
    {[op |-> "route_context", message |-> Some(RomanticExample),
      dialog_history |-> h, user_preferences |-> None, time_info |-> None] :
        h \in {None, Some(<<>>)}}
    \cup
    {[op |-> "route_context", message |-> m, dialog_history |-> h,
      user_preferences |-> None, time_info |-> None] :
        m \in ShortMessages,
        h \in Optional(Lists({Vocabulary[2], Vocabulary[7], Vocabulary[11]},
                             MaxRouteHistory))}
    \cup
    {[op |-> "route_context", message |-> Some(Vocabulary[7]),
      dialog_history |-> Some(h), user_preferences |-> None,
      time_info |-> None] :
        h \in UNION {[1..k -> {Vocabulary[2], Vocabulary[7], Vocabulary[11]}] :
                        k \in 6..MaxLongHistory}}
    \cup
    {[op |-> "route_context", message |-> Some(Vocabulary[7]),
      dialog_history |-> None, user_preferences |-> None,
      time_info |-> Some(t)] :
        t \in [hour : 0..23] \cup [hour : 0..23, weekday : {6}]}
    \cup
    {[op |-> "route_context", message |-> Some(w \o e),
      dialog_history |-> None, user_preferences |-> None, time_info |-> t] :
        w \in {Vocabulary[1], Vocabulary[7], Vocabulary[10], Vocabulary[11],
               <<1080, 1076, 1077, 1103>>},  \* идея
        e \in {<<33>>, <<63>>, <<63, 33>>},
        t \in {None, Some([hour |-> 2]), Some([hour |-> 9])}}
    \cup
    {[op |-> "route_context", message |-> m, dialog_history |-> h,
      user_preferences |-> p, time_info |-> t] :
        m \in ShortMessages,
        h \in {None, Some(<<>>), Some(<<Vocabulary[2]>>)},
        p \in PreferenceInputs, t \in TimeInputs}

ValidateCalls ==
    {[op |-> "validate_context_switch", current_context |-> c,
      proposed_context |-> p, dialog_history |-> h] :
        c \in ContextNames \cup {"unknown"},
        p \in ContextNames \cup {"unknown"},
        h \in Optional(Lists({Vocabulary[2], Vocabulary[11]}, MaxHistory))}

AnalyzeCalls ==
    {[op |-> "analyze_context", text |-> m, dialog_context |-> d] :
        m \in Optional(Messages(MaxWords)),
        d \in {None, Some("family")}}
    \cup
    {[op |-> "analyze_context", text |-> m, dialog_context |-> d] :
        m \in Optional(Messages(1)),
        d \in {Some(""), Some("unknown"), Some("creative")}}

\* a formal word, an emotional word, a family word and an emoji that is
\* emotional too
StyleWords ==
    {<<1087, 1088, 1086, 1096, 1091>>,  \* прошу
     Vocabulary[9], Vocabulary[10],
     <<128525>>}  \* 😍

\* every text of one to MaxStyleWords words of style, as it is and with an
\* exclamation mark after it
StyleTexts ==
    UNION {{Join(w, <<32>>) \o e : w \in [1..k -> StyleWords],
                                   e \in {<<>>, <<33>>}} :
              k \in 1..MaxStyleWords}

\* one word again and again: 1 to MaxLengthWords times as it is, and 1 to
\* 2 * MaxLengthWords times before an emoji
LengthTexts ==
    {Join([i \in 1..k |-> Vocabulary[7]], <<32>>) : k \in 1..MaxLengthWords}
    \cup
    {Join([i \in 1..k |-> Vocabulary[7]], <<32>>) \o <<32, 128512>> :
        k \in 1..(2 * MaxLengthWords)}

\* the calls of analyze_context on the texts made for the style
StyleCalls ==
    {[op |-> "analyze_context", text |-> Some(m), dialog_context |-> None] :
        m \in StyleTexts \cup LengthTexts \cup {<<32>>}}

\* seven different words: "дедлайн Работа проект встреча коллега подруга
\* кафе", a message with six different phrases
LongMessage == Join([i \in 1..7 |-> Vocabulary[i]], <<32>>)

\* the messages of a corpus: the empty one, one word, three words and the
\* long one
CorpusMessages ==
    {<<>>, Vocabulary[10],
     Join(<<Vocabulary[9], Vocabulary[10], Vocabulary[11]>>, <<32>>),
     LongMessage}

\* every corpus of at most MaxCorpus messages with a context of the table
\* and one that is not; the empty corpus with every context
SignatureCalls ==
    {[op |-> "extract_style_signature", messages |-> l, context |-> c] :
        l \in Lists(CorpusMessages, MaxCorpus), c \in {"family", "unknown"}}
    \cup
    {[op |-> "extract_style_signature", messages |-> <<>>, context |-> c] :
        c \in ContextNames \cup {"unknown", ""}}

\* the averages 0.0, 0.1, ... that an emotionality can have
EmotionalityInputs == {FDiv(FFromInt(k), FFromInt(10)) : k \in 0..MaxTenths}

\* no characteristics, formality alone, and every combination of a
\* formality, an emotionality and a number of words
DescribeCalls ==
    {[op |-> "_describe_style", characteristics |-> ch] :
        ch \in {EmptyDict, [formality |-> F0_5]}
                \cup [formality : {F0_0, F0_5, F1_0},
                      emotionality : EmotionalityInputs,
                      word_count : {FFromInt(3), FFromInt(10), FFromInt(20)}]}

\* the messages without a keyword, with two keywords of one context and
\* with a keyword and an emoji of another, and every number of suggestions
SuggestCalls ==
    {[op |-> "suggest_multiple_contexts", message |-> m,
      num_suggestions |-> n] :
        m \in ShortMessages
               \cup {Some(Join(<<Vocabulary[1], Vocabulary[3]>>, <<32>>)),
                     Some(RomanticExample)},
        n \in 0..MaxSuggestions}

Calls ==
    RouteCalls \cup ValidateCalls \cup AnalyzeCalls \cup StyleCalls
    \cup SignatureCalls \cup DescribeCalls \cup SuggestCalls

\* the calls of a session on one shared router and analyzer: one call of
\* each operation and a second one of analyze_context
SessionCalls ==
    {[op |-> "route_context", message |-> Some(Vocabulary[1]),
      dialog_history |-> Some(<<Vocabulary[2]>>),
      user_preferences |-> Some([fav_contexts |-> <<"professional">>]),
      time_info |-> Some([hour |-> 9])],
     [op |-> "validate_context_switch", current_context |-> "family",
      proposed_context |-> "romantic",
      dialog_history |-> Some(<<Vocabulary[9]>>)],
     [op |-> "suggest_multiple_contexts",
      message |-> Some(RomanticExample), num_suggestions |-> 3],
     [op |-> "analyze_context", text |-> Some(Vocabulary[9]),
      dialog_context |-> Some("family")],
     [op |-> "analyze_context", text |-> Some(Vocabulary[11]),
      dialog_context |-> None],
     [op |-> "extract_style_signature",
      messages |-> <<Vocabulary[10], Vocabulary[10]>>,
      context |-> "family"],
     [op |-> "_describe_style", characteristics |-> [formality |-> F0_5]]}

(***************************************************************************)
(* The state machine: a router and an analyzer are constructed, one call   *)
(* is made and returns or raises.                                          *)
(***************************************************************************)
Init ==
    /\ context_rules = _build_context_rules
    /\ context_patterns = _load_context_patterns
    /\ call \in Calls
    /\ result = None
    /\ earlier = None
    /\ in_progress = {}

\* a router whose rule table has no entry: the case for which
\* route_context has its default branch
InitEmptyTable ==
    /\ context_rules = <<>>
    /\ context_patterns = _load_context_patterns
    /\ call \in Calls
    /\ result = None
    /\ earlier = None
    /\ in_progress = {}

CallRouteContext ==
    /\ call.op = "route_context"
    /\ result = None
    /\ result' = Some(route_context(call.message, call.dialog_history,
                                    call.user_preferences, call.time_info))
    /\ UNCHANGED <<context_rules, context_patterns, call, earlier,
                   in_progress>>

CallValidateContextSwitch ==
    /\ call.op = "validate_context_switch"
    /\ result = None
    /\ result' = Some(validate_context_switch(call.current_context,
                                              call.proposed_context,
                                              call.dialog_history))
    /\ UNCHANGED <<context_rules, context_patterns, call, earlier,
                   in_progress>>

\* analyze_context as it would be if it dropped the first entry of the
\* pattern table after use
CallAnalyzeContext_writing ==
    /\ call.op = "analyze_context"
    /\ result = None
    /\ result' = Some(Return(analyze_context(call.text, call.dialog_context)))
    /\ context_patterns' = Tail(context_patterns)
    /\ UNCHANGED <<context_rules, call, earlier, in_progress>>

CallAnalyzeContext ==
    /\ call.op = "analyze_context"
    /\ result = None
    /\ result' = Some(Return(analyze_context(call.text, call.dialog_context)))
    /\ UNCHANGED <<context_rules, context_patterns, call, earlier,
                   in_progress>>

CallExtractStyleSignature ==
    /\ call.op = "extract_style_signature"
    /\ result = None
    /\ result' = Some(extract_style_signature(call.messages, call.context))
    /\ UNCHANGED <<context_rules, context_patterns, call, earlier,
                   in_progress>>

CallDescribeStyle ==
    /\ call.op = "_describe_style"
    /\ result = None
    /\ result' = Some(Return(_describe_style(call.characteristics)))
    /\ UNCHANGED <<context_rules, context_patterns, call, earlier,
                   in_progress>>

CallSuggestMultipleContexts ==
    /\ call.op = "suggest_multiple_contexts"
    /\ result = None
    /\ result' = Some(Return(suggest_multiple_contexts(call.message,
                                                       call.num_suggestions)))
    /\ UNCHANGED <<context_rules, context_patterns, call, earlier,
                   in_progress>>

Next ==
    \/ CallRouteContext
    \/ CallValidateContextSwitch
    \/ CallAnalyzeContext
    \/ CallExtractStyleSignature
    \/ CallDescribeStyle
    \/ CallSuggestMultipleContexts

Spec == Init /\ [][Next]_vars

SpecEmptyTable == InitEmptyTable /\ [][Next]_vars

(***************************************************************************)
(* A session: several callers use one router and one analyzer.  The        *)
(* caller that is followed makes its call and, after it returned, the      *)
(* same call once more; in the meantime other callers start calls and      *)
(* their calls run, in any order.  No method assigns to self.context_rules *)
(* or self.context_patterns or changes an entry of them, so a call that    *)
(* runs leaves both tables as they are.                                    *)
(***************************************************************************)
InitSession ==
    /\ context_rules = _build_context_rules
    /\ context_patterns = _load_context_patterns
    /\ call \in SessionCalls
    /\ result = None
    /\ earlier = None
    /\ in_progress = {}

\* what the method named by the call returns or raises on the tables as
\* they are
Outcome(c) ==
    IF c.op = "route_context"
    THEN route_context(c.message, c.dialog_history, c.user_preferences,
                       c.time_info)
    ELSE IF c.op = "validate_context_switch"
    THEN validate_context_switch(c.current_context, c.proposed_context,
                                 c.dialog_history)
    ELSE IF c.op = "suggest_multiple_contexts"
    THEN Return(suggest_multiple_contexts(c.message, c.num_suggestions))
    ELSE IF c.op = "analyze_context"
    THEN Return(analyze_context(c.text, c.dialog_context))
    ELSE IF c.op = "extract_style_signature"
    THEN extract_style_signature(c.messages, c.context)
    ELSE Return(_describe_style(c.characteristics))

\* the caller keeps the result and makes the same call again
CallAgain ==
    /\ result # None
    /\ earlier = None
    /\ earlier' = result
    /\ result' = None
    /\ UNCHANGED <<context_rules, context_patterns, call, in_progress>>

\* another caller starts a call
OtherCallStarts ==
    /\ Cardinality(in_progress) < MaxInProgress
    /\ \E c \in SessionCalls :
           /\ \A o \in in_progress : o.call # c
           /\ in_progress' = in_progress \cup {[call |-> c, result |-> None]}
    /\ UNCHANGED <<context_rules, context_patterns, call, result, earlier>>

\* a call of another caller that would, while it runs, drop the first
\* entry of both tables
OtherCallRuns_writing ==
    /\ \E o \in in_progress :
           /\ o.result = None
           /\ in_progress' = (in_progress \ {o})
                  \cup {[call |-> o.call, result |-> Some(Outcome(o.call))]}
    /\ context_rules' = Tail(context_rules)
    /\ context_patterns' = Tail(context_patterns)
    /\ UNCHANGED <<call, result, earlier>>

\* the call of another caller runs and returns to that caller
OtherCallRuns ==
    /\ \E o \in in_progress :
           /\ o.result = None
           /\ in_progress' = (in_progress \ {o})
                  \cup {[call |-> o.call, result |-> Some(Outcome(o.call))]}
    /\ UNCHANGED <<context_rules, context_patterns, call, result, earlier>>

NextSession == Next \/ CallAgain \/ OtherCallStarts \/ OtherCallRuns

SpecSession == InitSession /\ [][NextSession]_vars

(***************************************************************************)
(* The switches of a dialogue: the state is the current context, held by   *)
(* the call of validate_context_switch that is made on it.  After the call *)
(* returned, the dialogue takes the proposed context when the switch is    *)
(* allowed and keeps its context when it is refused, and the next proposal *)
(* is made.                                                                *)
(***************************************************************************)
\* no history, and the histories of MaxHistory equal messages: with a
\* keyword of friendly and without a keyword
SwitchHistories ==
    {None}
    \cup {Some([i \in 1..MaxHistory |-> w]) :
             w \in {Vocabulary[7], Vocabulary[11]}}

\* the proposals: the contexts of the table and two other values
Proposals == ContextNames \cup {"unknown", ""}

InitSwitch ==
    /\ context_rules = _build_context_rules
    /\ context_patterns = _load_context_patterns
    /\ call \in {[op |-> "validate_context_switch", current_context |-> c,
                  proposed_context |-> p, dialog_history |-> h] :
                    c \in ContextNames, p \in Proposals,
                    h \in SwitchHistories}
    /\ result = None
    /\ earlier = None
    /\ in_progress = {}

FollowSwitch ==
    /\ call.op = "validate_context_switch"
    /\ result # None
    /\ \E p \in Proposals, h \in SwitchHistories :
           call' = [op |-> "validate_context_switch",
                    current_context |->
                        IF result[1].value[1] THEN call.proposed_context
                        ELSE call.current_context,
                    proposed_context |-> p,
                    dialog_history |-> h]
    /\ earlier' = result
    /\ result' = None
    /\ UNCHANGED <<context_rules, context_patterns, in_progress>>

NextSwitch == CallValidateContextSwitch \/ FollowSwitch

SpecSwitch == InitSwitch /\ [][NextSwitch]_vars

(***************************************************************************)
(* Properties.  They are stated over the call that was made and its       *)
(* result; the scores of a route_context call are those of its loop.       *)
(***************************************************************************)
IsRoute == call.op = "route_context"

IsValidate == call.op = "validate_context_switch"

IsAnalyze == call.op = "analyze_context"

Done == result # None

Returned == result # None /\ result[1].outcome = "return"

\* the items of context_scores of the route_context call
RouteScores ==
    ContextScores(call.message, HistoryAnalysis(call.dialog_history),
                  TimeAnalysis(call.time_info),
                  PreferencesAnalysis(call.user_preferences))

\* the lower-cased text of the message, empty for None
LowerMessage == IF call.message = None THEN <<>> ELSE Lower(call.message[1])

\* how many of the words the lower-cased text contains, each word once
Hits(words, text_lower) ==
    Cardinality({i \in 1..Len(words) : Contains(words[i], text_lower)})

\* 2^-40: the distance allowed between a thousand times a score in double
\* arithmetic and the whole number of thousandths it stands for
Tolerance == [neg |-> FALSE, man |-> <<1>>, exp |-> -40]

\* C1: the confidence of the ContextRoute that route_context returns lies
\* in [0, 1], whatever the message, history, preferences and time_info; it
\* is not negative even when the message holds avoid-keywords of some
\* contexts and no keyword of any context.
C1_ConfidenceInUnitInterval ==
    (IsRoute /\ Returned) =>
        /\ FLe(F0_0, result[1].value.confidence)
        /\ FLe(result[1].value.confidence, F1_0)

\* a returned route of a message with an avoid-keyword of some context and
\* no keyword of any context: its confidence is 0
C1_Witness ==
    /\ IsRoute /\ Returned
    /\ \A i \in 1..Len(context_rules) :
           Hits(context_rules[i].rules.keywords, LowerMessage) = 0
    /\ \E i \in 1..Len(context_rules) :
           Hits(Get(context_rules[i].rules, "avoid_keywords", <<>>),
                LowerMessage) > 0
    /\ FCmp(result[1].value.confidence, F0_0) = 0

\* C2: secondary_contexts of the ContextRoute that route_context returns
\* never contains its primary_context.
C2_SecondaryExcludesPrimary ==
    (IsRoute /\ Returned) =>
        ~InList(result[1].value.primary_context,
                result[1].value.secondary_contexts)

\* a returned route that has a secondary context
C2_Witness ==
    /\ IsRoute /\ Returned
    /\ result[1].value.secondary_contexts # <<>>
    /\ result[1].value.secondary_contexts[1] #
           result[1].value.primary_context

\* the score of context i of the table in thousandths, as the real number
\* 0.4 * min(0.3 k, 1) - 0.2 * min(0.2 a, 1) + 0.09 + 0.02 + 0.06 with the
\* three additions present as their conditions hold; h, t and p are the
\* analyses of the history, the time and the preferences
ExpectedThousandths(i, text_lower, h, t, p) ==
    LET name  == context_rules[i].name
        rules == context_rules[i].rules
        k     == Hits(rules.keywords, text_lower)
        a     == Hits(Get(rules, "avoid_keywords", <<>>), text_lower)
    IN  MinOf(120 * k, 400) - MinOf(40 * a, 200)
        + (IF "recent_context" \in DOMAIN h /\ h.recent_context = name
           THEN 90 ELSE 0)
        + (IF /\ "current_period" \in DOMAIN t
              /\ InList(t.current_period, rules.time_preference)
           THEN 20 ELSE 0)
        + (IF "fav_contexts" \in DOMAIN p /\ InList(name, p.fav_contexts)
           THEN 60 ELSE 0)

\* the expected thousandths of context i for the call that was made
ExpectedOfCall(i) ==
    ExpectedThousandths(i, LowerMessage,
                        HistoryAnalysis(call.dialog_history),
                        TimeAnalysis(call.time_info),
                        PreferencesAnalysis(call.user_preferences))

\* C3: the score of every context is 0.4 * keyword_score - 0.2 * avoid_score
\* + 0.09 if the recent context of the history is this context + 0.02 if the
\* current period is in its time preference + 0.06 if it is a favored
\* context, with keyword_score = min(0.3 * keywords contained in the
\* lower-cased message, 1) and avoid_score = min(0.2 * avoid-keywords
\* contained, 1), each keyword counted once; a thousand times the double
\* the code computes is within 2^-40 of that number of thousandths.
C3_ScoreFormula ==
    (IsRoute /\ Done) =>
        LET text_lower == LowerMessage
            h          == HistoryAnalysis(call.dialog_history)
            t          == TimeAnalysis(call.time_info)
            p          == PreferencesAnalysis(call.user_preferences)
            scores     == ContextScores(call.message, h, t, p)
        IN  \A i \in 1..Len(context_rules) :
                FLe(FAbs(FSub(FMul(scores[i].score, FFromInt(1000)),
                              FFromInt(ExpectedThousandths(i, text_lower,
                                                           h, t, p)))),
                    Tolerance)

\* a returned route where the professional score has all four additions:
\* one keyword, the recent context, the period and the favored contexts
C3_Witness ==
    /\ IsRoute /\ Returned
    /\ Hits(context_rules[1].rules.keywords, LowerMessage) = 1
    /\ ExpectedOfCall(1) = 290
    /\ result[1].value.primary_context = "professional"

\* the optional input is absent or empty
Missing(opt) == opt = None \/ opt[1] = <<>>

\* C4: when the dialog history, the preferences and the time_info are each
\* absent or empty, or the time_info has no hour, route_context returns and
\* the score of every context is exactly 0.4 * keyword_score
\* - 0.2 * avoid_score.
C4_MissingInputsContributeZero ==
    (/\ IsRoute /\ Done
     /\ Missing(call.dialog_history)
     /\ Missing(call.user_preferences)
     /\ (Missing(call.time_info) \/ "hour" \notin DOMAIN call.time_info[1]))
    => /\ Returned
       /\ \A i \in 1..Len(context_rules) :
              RouteScores[i].score =
                  FSub(FMul(_calculate_keyword_score(
                                call.message, context_rules[i].rules.keywords),
                            F0_4),
                       FMul(_calculate_avoid_score(
                                call.message,
                                Get(context_rules[i].rules, "avoid_keywords",
                                    <<>>)),
                            F0_2))

\* a returned route of a message with a keyword, called with an empty
\* history, empty preferences and a time_info that has a weekday and no hour
C4_Witness ==
    /\ IsRoute /\ Returned
    /\ call.dialog_history = Some(<<>>)
    /\ call.user_preferences = Some(EmptyDict)
    /\ call.time_info # None
    /\ DOMAIN call.time_info[1] = {"weekday"}
    /\ \E i \in 1..Len(context_rules) :
           Hits(context_rules[i].rules.keywords, LowerMessage) > 0

\* the text contains the deadline word and no family and no romantic
\* keyword, of the router's table or of the analyzer's lists, and none of
\* the analyzer's romantic emojis
DeadlineText(text) ==
    LET text_lower == Lower(text)
    IN  /\ Contains(<<1076, 1077, 1076, 1083, 1072, 1081, 1085>>, text_lower)  \* дедлайн
        /\ Hits(RulesOf("family").keywords, text_lower) = 0
        /\ Hits(RulesOf("romantic").keywords, text_lower) = 0
        /\ Hits(family_keywords, text_lower) = 0
        /\ Hits(romantic_keywords, text_lower) = 0
        /\ Hits(romantic_emojis, text) = 0

\* a route_context call without history, preferences and time whose message
\* is a deadline text
DeadlineRoute ==
    /\ IsRoute /\ Done
    /\ Missing(call.dialog_history)
    /\ Missing(call.user_preferences)
    /\ Missing(call.time_info)
    /\ call.message # None
    /\ DeadlineText(call.message[1])

\* an analyze_context call whose text is a deadline text
DeadlineAnalyze ==
    IsAnalyze /\ Done /\ call.text # None /\ DeadlineText(call.text[1])

\* C5 as stated: for every message that contains the deadline word and no
\* family and no romantic keyword, the context is professional both in
\* route_context (without history, time and preferences) and in
\* analyze_context, whatever other words the message contains.
C5_DeadlineIsProfessional ==
    /\ DeadlineRoute =>
           /\ Returned
           /\ result[1].value.primary_context = "professional"
    /\ DeadlineAnalyze =>
           result[1].value.detected_context = "professional"

\* C5 as amended: for such a message analyze_context detects professional;
\* route_context gives professional as the primary context when the message
\* also contains no professional avoid-keyword and no more friendly keywords
\* and no more creative keywords than professional keywords.
C5_DeadlineIsProfessionalUnlessOutweighed ==
    /\ (/\ DeadlineRoute
        /\ Hits(RulesOf("professional").avoid_keywords, LowerMessage) = 0
        /\ Hits(RulesOf("friendly").keywords, LowerMessage)
               <= Hits(RulesOf("professional").keywords, LowerMessage)
        /\ Hits(RulesOf("creative").keywords, LowerMessage)
               <= Hits(RulesOf("professional").keywords, LowerMessage))
       => /\ Returned
          /\ result[1].value.primary_context = "professional"
    /\ DeadlineAnalyze =>
           result[1].value.detected_context = "professional"

\* a deadline message with as many friendly as professional keywords whose
\* route is professional
C5_Witness ==
    /\ DeadlineRoute /\ Returned
    /\ Hits(RulesOf("professional").avoid_keywords, LowerMessage) = 0
    /\ Hits(RulesOf("friendly").keywords, LowerMessage) > 0
    /\ Hits(RulesOf("friendly").keywords, LowerMessage)
           = Hits(RulesOf("professional").keywords, LowerMessage)
    /\ result[1].value.primary_context = "professional"

\* the directed pairs <<current, proposed>> of the compatibility sets
CompatiblePairs ==
    {<<"professional", "friendly">>, <<"professional", "creative">>,
     <<"family", "friendly">>, <<"family", "romantic">>,
     <<"romantic", "family">>, <<"romantic", "friendly">>,
     <<"friendly", "professional">>, <<"friendly", "family">>,
     <<"friendly", "romantic">>, <<"friendly", "creative">>,
     <<"creative", "professional">>, <<"creative", "friendly">>}

\* C6: validate_context_switch returns allowed = true exactly when the
\* current and the proposed context are equal or the proposed context is in
\* the directed compatibility set of the current one.
C6_AllowedIffCompatible ==
    (IsValidate /\ Done) =>
        /\ Returned
        /\ result[1].value[1] <=>
               \/ call.current_context = call.proposed_context
               \/ <<call.current_context, call.proposed_context>>
                      \in CompatiblePairs

\* the switch from professional to family was refused
C6_Witness ==
    /\ IsValidate /\ Returned
    /\ call.current_context = "professional"
    /\ call.proposed_context = "family"
    /\ result[1].value[1] = FALSE

\* one of the last three entries of the history contains a keyword of the
\* context
RecentlyMentioned(context, history) ==
    \E i \in MaxOf(1, Len(history) - 2)..Len(history) :
        Hits(RulesOf(context).keywords, Lower(history[i])) > 0

\* C7 as stated: for an allowed switch between two different contexts and a
\* history of any length the reason is the smooth transition exactly when
\* one of the last three history entries contains a keyword of the proposed
\* context, and the generic permission otherwise.
C7_SmoothIffRecentlyMentioned ==
    (/\ IsValidate /\ Returned
     /\ call.current_context # call.proposed_context
     /\ call.dialog_history # None
     /\ result[1].value[1])
    => result[1].value[2] =
           IF RecentlyMentioned(call.proposed_context, call.dialog_history[1])
           THEN << <<1055, 1083, 1072, 1074, 1085, 1099, 1081, 32, 1087,
                     1077, 1088, 1077, 1093, 1086, 1076, 32, 1085, 1072, 32,
                     1086, 1089, 1085, 1086, 1074, 1077, 32, 1080, 1089,
                     1090, 1086, 1088, 1080, 1080>> >> ELSE <<  \* Плавный переход на основе истории
                   <<1055, 1077, 1088, 1077, 1093, 1086, 1076, 32, 1088,
                     1072, 1079, 1088, 1077, 1096, 1077, 1085>> >>  \* Переход разрешен

\* C8: secondary_contexts holds the rank-2 context (the best of the contexts
\* other than the primary one, the first of the table among equals)
\* exactly when the top score and its score differ by less than 0.1, and is
\* empty otherwise; the primary context has the top score.
C8_SecondaryIsCloseRankTwo ==
    (IsRoute /\ Returned) =>
        LET scores == RouteScores
            n      == Len(scores)
            first  == CHOOSE i \in 1..n :
                          scores[i].name = result[1].value.primary_context
            others == (1..n) \ {first}
            second == CHOOSE j \in others : \A k \in others :
                          \/ FLt(scores[k].score, scores[j].score)
                          \/ scores[k].score = scores[j].score /\ j <= k
        IN  /\ \A k \in 1..n : ~FLt(scores[first].score, scores[k].score)
            /\ result[1].value.secondary_contexts =
                   IF FLt(FAbs(FSub(scores[first].score,
                                    scores[second].score)), F0_1)
                   THEN <<scores[second].name>> ELSE <<>>

\* a returned route whose secondary context has a score below the top score
C8_Witness ==
    /\ IsRoute /\ Returned
    /\ result[1].value.secondary_contexts # <<>>
    /\ \E i, j \in 1..Len(context_rules) :
           /\ RouteScores[i].name = result[1].value.primary_context
           /\ RouteScores[j].name = result[1].value.secondary_contexts[1]
           /\ FLt(RouteScores[j].score, RouteScores[i].score)

\* C9 as stated: with an empty rule table route_context returns, without
\* raising, a ContextRoute whose primary context is friendly, whose
\* confidence is 0.5 and whose secondary contexts are empty.
C9_EmptyTableDefaultsToFriendly ==
    (IsRoute /\ Done /\ context_rules = <<>>) =>
        /\ Returned
        /\ result[1].value.primary_context = "friendly"
        /\ result[1].value.confidence = F0_5
        /\ result[1].value.secondary_contexts = <<>>

\* C10 as stated: route_context called with the message None ends in a
\* failure and does not return a ContextRoute.
C10_NullMessageFails ==
    (IsRoute /\ Done /\ call.message = None) =>
        result[1].outcome = "raise"

(***************************************************************************)
(* The overrides of analyze_context.                                       *)
(***************************************************************************)
\* the known context passed to analyze_context is one of the pattern table
KnownContextValid ==
    /\ call.dialog_context # None
    /\ call.dialog_context[1] # ""
    /\ HasPattern(call.dialog_context[1])

\* the context the priority list of the overrides gives for the text
OverrideOrElse(text, otherwise) ==
    IF Hits(work_keywords, Lower(text)) > 0 THEN "professional"
    ELSE IF Hits(family_keywords, Lower(text)) > 0 THEN "family"
    ELSE IF Hits(romantic_keywords, Lower(text)) > 0
            \/ Hits(romantic_emojis, text) > 0 THEN "romantic"
    ELSE otherwise

\* C11: for a non-empty text analyze_context detects "professional" when a
\* work keyword matches, else "family" when a family keyword matches, else
\* "romantic" when a romantic keyword or emoji matches, and when none
\* matches the valid known context if one was passed, else the scored
\* context; the overrides apply with a known context too.
C11_OverridePriority ==
    (IsAnalyze /\ Done /\ Truthy(call.text)) =>
        /\ Returned
        /\ result[1].value.detected_context =
              OverrideOrElse(call.text[1],
                  IF KnownContextValid THEN call.dialog_context[1]
                  ELSE ScoredContext(PatternScores(Lower(call.text[1]))))

\* a work keyword written with a capital overrides the known context
\* "family"
C11_Witness ==
    /\ IsAnalyze /\ Returned /\ Truthy(call.text)
    /\ call.dialog_context = Some("family")
    /\ Hits(work_keywords, call.text[1]) = 0
    /\ Hits(work_keywords, Lower(call.text[1])) > 0
    /\ result[1].value.detected_context = "professional"

\* the text matches no word of any context's patterns and no override
NothingMatches(text) ==
    /\ \A i \in 1..Len(context_patterns) :
          PatternScore(context_patterns[i].patterns, Lower(text)) = F0_0
    /\ OverrideOrElse(text, "none") = "none"

\* C12: a non-empty text without known context that matches no word of any
\* context and no override is detected as "friendly".
C12_AllZeroIsFriendly ==
    (/\ IsAnalyze /\ Done /\ Truthy(call.text)
     /\ call.dialog_context = None
     /\ NothingMatches(call.text[1])) =>
        /\ Returned
        /\ result[1].value.detected_context = "friendly"

\* C13: analyze_context on the empty text returns the neutral result, with
\* detected context "unknown" and confidence 0, and does not raise.
C13_EmptyTextIsUnknown ==
    (IsAnalyze /\ Done /\ call.text = Some(<<>>)) =>
        /\ Returned
        /\ result[1].value.detected_context = "unknown"
        /\ result[1].value.confidence = F0_0

\* the empty text was analyzed with a known context and is "unknown"
C13_Witness ==
    /\ IsAnalyze /\ Returned /\ call.text = Some(<<>>)
    /\ call.dialog_context = Some("family")
    /\ result[1].value.detected_context = "unknown"

(***************************************************************************)
(* The example of the specification for route_context.                     *)
(***************************************************************************)
IsRomanticExample ==
    /\ IsRoute
    /\ call.message = Some(RomanticExample)
    /\ Missing(call.dialog_history)
    /\ call.time_info = None
    /\ call.user_preferences = None

\* C18: the example message routed with empty history, no time and no
\* preferences gets primary_context "romantic" with a confidence strictly
\* between 0 and 1.
C18_RomanticExample ==
    (IsRomanticExample /\ Done) =>
        /\ Returned
        /\ result[1].value.primary_context = "romantic"
        /\ FLt(F0_0, result[1].value.confidence)
        /\ FLt(result[1].value.confidence, F1_0)

\* the example was routed with the empty list as its history
C18_Witness ==
    /\ IsRomanticExample /\ Returned
    /\ call.dialog_history = Some(<<>>)
    /\ result[1].value.primary_context = "romantic"

(***************************************************************************)
(* The style signature.                                                    *)
(***************************************************************************)
IsSignature == call.op = "extract_style_signature"

IsDescribe == call.op = "_describe_style"

\* C14: extract_style_signature on an empty corpus returns the empty
\* aggregate for every context argument and does not raise.
C14_EmptyCorpusIsEmptySignature ==
    (IsSignature /\ Done /\ call.messages = <<>>) =>
        /\ Returned
        /\ result[1].value = EmptyDict

\* the empty corpus was given with a context that is not of the table
C14_Witness ==
    /\ IsSignature /\ Returned
    /\ call.messages = <<>>
    /\ call.context = "unknown"
    /\ result[1].value = EmptyDict

\* the rank of the emotionality band that a style label renders: reserved,
\* moderately emotional, emotional
BandRank(label) ==
    IF Contains(<<1091, 1084, 1077, 1088, 1077, 1085, 1085, 1086, 32, 1101,
                  1084, 1086, 1094, 1080, 1086, 1085, 1072, 1083, 1100, 1085,
                  1099, 1081>>, label) THEN 1  \* умеренно эмоциональный
    ELSE IF Contains(<<1101, 1084, 1086, 1094, 1080, 1086, 1085, 1072, 1083,
                       1100, 1085, 1099, 1081>>, label) THEN 2  \* эмоциональный
    ELSE IF Contains(<<1089, 1076, 1077, 1088, 1078, 1072, 1085, 1085, 1099,
                       1081>>, label) THEN 0  \* сдержанный
    ELSE -1

\* C17: with the other characteristics fixed, for e1 <= e2 the emotionality
\* band of the label rendered for e2 is never weaker than the one rendered
\* for e1 (reserved < moderately emotional < emotional).
C17_EmotionalityBandMonotonic ==
    (IsDescribe /\ Returned /\ "emotionality" \in DOMAIN call.characteristics)
    => \A e1 \in EmotionalityInputs :
           FLe(e1, call.characteristics.emotionality) =>
               /\ BandRank(_describe_style(
                      [call.characteristics EXCEPT !.emotionality = e1])) >= 0
               /\ BandRank(_describe_style(
                      [call.characteristics EXCEPT !.emotionality = e1]))
                      <= BandRank(result[1].value)

\* a label with the band emotional, where a lower emotionality with the
\* same formality and length renders each of the two weaker bands
C17_Witness ==
    /\ IsDescribe /\ Returned
    /\ "emotionality" \in DOMAIN call.characteristics
    /\ BandRank(result[1].value) = 2
    /\ \A r \in {0, 1} : \E e1 \in EmotionalityInputs :
           /\ FLt(e1, call.characteristics.emotionality)
           /\ BandRank(_describe_style(
                  [call.characteristics EXCEPT !.emotionality = e1])) = r

\* C19 as stated: extract_style_signature does not raise for a non-empty
\* list of strings, empty strings included, and returns a signature whose
\* message_count is the number of messages.
C19_SignatureOfEveryCorpus ==
    (IsSignature /\ Done /\ call.messages # <<>>) =>
        /\ Returned
        /\ result[1].value.message_count = Len(call.messages)

\* the phrases of two adjacent tokens of the lower-cased messages
AdjacentPhrases(messages) ==
    Join([m \in 1..Len(messages) |->
             LET words == Split(Lower(messages[m]))
             IN  [i \in 1..(Len(words) - 1) |->
                     words[i] \o <<32>> \o words[i + 1]]], <<>>)

\* C20 as stated: the signature lists at most 10 phrases, each an adjacent
\* 2-token phrase occurring at least twice in the corpus and none less
\* frequent than a phrase left out; when the corpus has at most 10
\* different repeated phrases, all of them are listed.
C20_TopTenRepeatedPhrases ==
    (IsSignature /\ Returned /\ call.messages # <<>>) =>
        LET phrases  == AdjacentPhrases(call.messages)
            repeated == {phrases[i] : i \in {k \in 1..Len(phrases) :
                            CountOf(phrases[k], phrases) >= 2}}
            listed   == result[1].value.common_phrases
        IN  /\ Len(listed) <= 10
            /\ \A i \in 1..Len(listed) : listed[i] \in repeated
            /\ \A i \in 1..Len(listed) : \A p \in repeated :
                   InList(p, listed)
                   \/ CountOf(p, phrases) <= CountOf(listed[i], phrases)
            /\ Cardinality(repeated) <= 10 =>
                   \A p \in repeated : InList(p, listed)

IsRouterCall(c) ==
    c.op \in {"route_context", "validate_context_switch",
              "suggest_multiple_contexts"}

EntriesMatching(context, entries) ==
    Cardinality({i \in 1..Len(entries) :
                    Hits(RulesOf(context).keywords, Lower(entries[i])) > 0})

\* C21: route_context gives for a history what it gives for the last 5
\* entries of it; recent_context is a context whose keywords are matched by
\* the largest number of those entries and context_frequency is that count
\* divided by the number of scanned entries, which lies in (0, 1]; when no
\* scanned entry matches a keyword there is no history signal.
C21_HistoryIsLastFive ==
    (IsRoute /\ Done /\ call.dialog_history # None) =>
        LET scanned == LastN(call.dialog_history[1], 5)
            a       == HistoryAnalysis(call.dialog_history)
            names   == {context_rules[i].name : i \in 1..Len(context_rules)}
        IN  /\ result[1] = route_context(call.message, Some(scanned),
                                         call.user_preferences, call.time_info)
            /\ IF \E c \in names : EntriesMatching(c, scanned) > 0
               THEN /\ \A c \in names :
                          EntriesMatching(c, scanned)
                              <= EntriesMatching(a.recent_context, scanned)
                    /\ a.context_frequency =
                          FDiv(FFromInt(EntriesMatching(a.recent_context,
                                                        scanned)),
                               FFromInt(Len(scanned)))
                    /\ FLt(F0_0, a.context_frequency)
                    /\ FLe(a.context_frequency, F1_0)
               ELSE a = EmptyDict

\* a history of six entries whose first entry alone has a professional
\* keyword: the recent context is friendly, with a frequency below 1
C21_Witness ==
    /\ IsRoute /\ Returned /\ call.dialog_history # None
    /\ Len(call.dialog_history[1]) = 6
    /\ EntriesMatching("professional", call.dialog_history[1]) = 1
    /\ EntriesMatching("professional", LastN(call.dialog_history[1], 5)) = 0
    /\ HistoryAnalysis(call.dialog_history).recent_context = "friendly"
    /\ FLt(HistoryAnalysis(call.dialog_history).context_frequency, F1_0)

\* the period of the day of an hour
PeriodOfHour(hour) ==
    IF 6 <= hour /\ hour < 12 THEN "morning"
    ELSE IF 12 <= hour /\ hour < 18 THEN "afternoon"
    ELSE IF 18 <= hour /\ hour < 23 THEN "evening"
    ELSE "night"

\* C22: for every hour in 0..23 the current period is morning for
\* 6 <= hour < 12, afternoon for 12 <= hour < 18, evening for
\* 18 <= hour < 23 and night otherwise, and the score of a context is
\* larger than it is without the time signal exactly when that period is
\* in the time preference of the context; the tags "weekend" and
\* "flexible" are never a period.
C22_PeriodOfHour ==
    (/\ IsRoute /\ Done /\ Truthy(call.time_info)
     /\ "hour" \in DOMAIN call.time_info[1]
     /\ call.time_info[1].hour \in 0..23)
    => LET a       == TimeAnalysis(call.time_info)
           h       == HistoryAnalysis(call.dialog_history)
           p       == PreferencesAnalysis(call.user_preferences)
           with    == ContextScores(call.message, h, a, p)
           without == ContextScores(call.message, h, EmptyDict, p)
       IN  /\ a.current_period = PeriodOfHour(call.time_info[1].hour)
           /\ a.current_period \notin {"weekend", "flexible"}
           /\ \A i \in 1..Len(context_rules) :
                  /\ FLe(without[i].score, with[i].score)
                  /\ FLt(without[i].score, with[i].score) <=>
                         InList(PeriodOfHour(call.time_info[1].hour),
                                context_rules[i].rules.time_preference)

\* a Sunday at 23: the period is night, the romantic and the creative
\* score have the contribution and the family score, whose preference
\* has the tag "weekend", does not
C22_Witness ==
    /\ IsRoute /\ Returned /\ Truthy(call.time_info)
    /\ DOMAIN call.time_info[1] = {"hour", "weekday"}
    /\ call.time_info[1].hour = 23
    /\ TimeAnalysis(call.time_info).current_period = "night"
    /\ TimeAnalysis(call.time_info).is_weekend
    /\ \A i \in 1..Len(context_rules) :
           FLt(ContextScores(call.message, EmptyDict, EmptyDict,
                             EmptyDict)[i].score,
               RouteScores[i].score)
           <=> context_rules[i].name \in {"romantic", "creative"}

\* the sentences of the reasoning that hold, in their order
ReasoningParts(keywords, history, time) ==
    (IF keywords
     THEN << <<1054, 1073, 1085, 1072, 1088, 1091, 1078, 1077, 1085, 1099,
               32, 1082, 1083, 1102, 1095, 1077, 1074, 1099, 1077, 32, 1089,
               1083, 1086, 1074, 1072, 32, 1082, 1086, 1085, 1090, 1077,
               1082, 1089, 1090, 1072>> >>  \* Обнаружены ключевые слова контекста
     ELSE <<>>)
    \o (IF history
        THEN << <<1057, 1086, 1074, 1087, 1072, 1076, 1072, 1077, 1090, 32,
                  1089, 32, 1085, 1077, 1076, 1072, 1074, 1085, 1080, 1084,
                  32, 1082, 1086, 1085, 1090, 1077, 1082, 1089, 1090, 1086,
                  1084, 32, 1076, 1080, 1072, 1083, 1086, 1075, 1072>> >>  \* Совпадает с недавним контекстом диалога
        ELSE <<>>)
    \o (IF time
        THEN << <<1055, 1086, 1076, 1093, 1086, 1076, 1080, 1090, 32, 1076,
                  1083, 1103, 32, 1090, 1077, 1082, 1091, 1097, 1077, 1075,
                  1086, 32, 1074, 1088, 1077, 1084, 1077, 1085, 1080, 32,
                  1089, 1091, 1090, 1086, 1082>> >>  \* Подходит для текущего времени суток
        ELSE <<>>)

\* the message of the call contains a keyword of some context
MessageHasKeyword ==
    \E i \in 1..Len(context_rules) :
        Hits(context_rules[i].rules.keywords, LowerMessage) > 0

\* the recent context of the history of the call is the context
HistoryPointsTo(context) ==
    LET a == HistoryAnalysis(call.dialog_history)
    IN  "recent_context" \in DOMAIN a /\ a.recent_context = context

\* the time_info of the call has an hour whose period is in the time
\* preference of the context
TimeFits(context) ==
    /\ Truthy(call.time_info)
    /\ "hour" \in DOMAIN call.time_info[1]
    /\ InList(PeriodOfHour(call.time_info[1].hour),
              RulesOf(context).time_preference)

\* C23: the reasoning of route_context is, joined by "; " in this order,
\* the keyword sentence exactly when the message contains a keyword of at
\* least one context, the history sentence exactly when recent_context is
\* the primary context, and the time sentence exactly when the current
\* period is in the time preference of the primary context; it is the
\* generic sentence exactly when none of the three holds.
C23_ReasoningParts ==
    (IsRoute /\ Returned) =>
        LET primary == result[1].value.primary_context
            parts   == ReasoningParts(call.message # None /\ MessageHasKeyword,
                                      HistoryPointsTo(primary),
                                      TimeFits(primary))
        IN  result[1].value.reasoning =
                IF parts # <<>> THEN Join(parts, <<59, 32>>)
                ELSE <<1054, 1087, 1088, 1077, 1076, 1077, 1083, 1077, 1085,
                       1086, 32, 1087, 1086, 32, 1086, 1073, 1097, 1080,
                       1084, 32, 1087, 1088, 1080, 1079, 1085, 1072, 1082,
                       1072, 1084>>  \* Определено по общим признакам

\* a route whose message has a keyword of a context that is not the
\* primary one and whose reasoning has all three sentences
C23_Witness ==
    /\ IsRoute /\ Returned
    /\ MessageHasKeyword
    /\ Hits(RulesOf(result[1].value.primary_context).keywords,
            LowerMessage) = 0
    /\ HistoryPointsTo(result[1].value.primary_context)
    /\ TimeFits(result[1].value.primary_context)
    /\ Len(result[1].value.reasoning) = 35 + 2 + 39 + 2 + 35

\* the tone of a context before it is adapted
BaseTone(context) ==
    IF context = "professional" THEN "formal_respectful"
    ELSE IF context = "family" THEN "warm_caring"
    ELSE IF context = "romantic" THEN "tender_affectionate"
    ELSE IF context = "friendly" THEN "casual_friendly"
    ELSE IF context = "creative" THEN "expressive_inspirational"
    ELSE "neutral"

\* the message of the call contains the character
MessageHas(char) ==
    call.message # None /\ Contains(<<char>>, call.message[1])

\* the time_info of the call has an hour of the night
AtNight ==
    /\ Truthy(call.time_info)
    /\ "hour" \in DOMAIN call.time_info[1]
    /\ PeriodOfHour(call.time_info[1].hour) = "night"

\* C24: the suggested tone is "more_relaxed" when the period is night and
\* the primary context is not professional, also when the message has '!';
\* otherwise "enthusiastic_" and the base tone when the message contains
\* '!' and the primary context is friendly or creative; otherwise the base
\* tone of the primary context.  response_type is "answer" when the message
\* contains '?', else "reaction" when it contains '!', else absent.
C24_ToneAndResponseType ==
    (IsRoute /\ Returned) =>
        LET primary     == result[1].value.primary_context
            suggestions == result[1].value.suggestions
        IN  /\ suggestions.tone =
                   IF AtNight /\ primary # "professional"
                   THEN "more_relaxed"
                   ELSE IF MessageHas(33)
                           /\ primary \in {"friendly", "creative"}
                   THEN "enthusiastic_" \o BaseTone(primary)
                   ELSE BaseTone(primary)
            /\ IF MessageHas(63) THEN suggestions.response_type = "answer"
               ELSE IF MessageHas(33)
               THEN suggestions.response_type = "reaction"
               ELSE "response_type" \notin DOMAIN suggestions

\* a friendly message with '!' at night: the tone is "more_relaxed" and
\* the response type "reaction"
C24_Witness ==
    /\ IsRoute /\ Returned
    /\ MessageHas(33) /\ ~MessageHas(63) /\ AtNight
    /\ result[1].value.primary_context = "friendly"
    /\ result[1].value.suggestions.tone = "more_relaxed"
    /\ result[1].value.suggestions.response_type = "reaction"

\* analyze_context has returned the analysis of a non-empty text
Analyzed ==
    /\ IsAnalyze /\ Returned
    /\ "characteristics" \in DOMAIN result[1].value

\* the tone of a context before it is adapted to the characteristics
BaseStyleTone(context) ==
    IF context = "professional" THEN "formal"
    ELSE IF context = "family" THEN "warm"
    ELSE IF context = "romantic" THEN "tender"
    ELSE IF context = "creative" THEN "expressive"
    ELSE "casual"

\* the emoji limit of a context before it is adapted
BaseEmojiLimit(context) ==
    IF context = "professional" THEN 0
    ELSE IF context \in {"romantic", "creative"} THEN 2
    ELSE 3

\* C25: the suggested style of analyze_context has the tone "emotional"
\* when the emotionality is above 0.7, also when the formality is above 0.7
\* too, else "very_formal" when the formality is above 0.7, else the base
\* tone of the detected context; its emoji_limit is the smaller of the base
\* limit plus 2 and 5 when the emoji frequency is above 0.5 and the base
\* limit otherwise, and so never above 5.
C25_SuggestedStyle ==
    Analyzed =>
        LET characteristics == result[1].value.characteristics
            suggested       == result[1].value.suggested_responses
            context         == result[1].value.detected_context
            limit           == BaseEmojiLimit(context)
        IN  /\ suggested.tone =
                   IF FLt(F0_7, characteristics.emotionality)
                   THEN "emotional"
                   ELSE IF FLt(F0_7, characteristics.formality)
                   THEN "very_formal"
                   ELSE BaseStyleTone(context)
            /\ suggested.emoji_limit =
                   IF FLt(F0_5, characteristics.emoji_frequency)
                   THEN (IF limit + 2 < 5 THEN limit + 2 ELSE 5)
                   ELSE limit
            /\ suggested.emoji_limit <= 5

\* a text that is both emotional and formal and full of emojis: the tone
\* is "emotional" and the emoji limit is raised by two
C25_Witness ==
    /\ Analyzed
    /\ FLt(F0_7, result[1].value.characteristics.emotionality)
    /\ FLt(F0_7, result[1].value.characteristics.formality)
    /\ FLt(F0_5, result[1].value.characteristics.emoji_frequency)
    /\ result[1].value.suggested_responses.tone = "emotional"
    /\ result[1].value.suggested_responses.emoji_limit =
           BaseEmojiLimit(result[1].value.detected_context) + 2

\* the number of the words of a text, counted at their last characters
WordsEnding(text) ==
    Cardinality({i \in 1..Len(text) :
                    /\ text[i] # 32
                    /\ i = Len(text) \/ text[i + 1] = 32})

\* the value lies in [0, 1]
InUnitInterval(x) == FLe(F0_0, x) /\ FLe(x, F1_0)

\* C26: for every non-empty text each of formality, emotionality,
\* humor_level and emoji_frequency returned by analyze_context lies in
\* [0, 1], and message_length is "short" for fewer than 5 words, "medium"
\* for 5 to 19 words and "long" for 20 or more.
C26_CharacteristicsInRange ==
    (IsAnalyze /\ Done /\ Truthy(call.text)) =>
        /\ Analyzed
        /\ LET characteristics == result[1].value.characteristics
               words           == WordsEnding(call.text[1])
           IN  /\ InUnitInterval(characteristics.formality)
               /\ InUnitInterval(characteristics.emotionality)
               /\ InUnitInterval(characteristics.humor_level)
               /\ InUnitInterval(characteristics.emoji_frequency)
               /\ characteristics.message_length =
                      IF words < 5 THEN "short"
                      ELSE IF words <= 19 THEN "medium"
                      ELSE "long"

\* a text of exactly five words is "medium" and one of twenty is "long"
C26_Witness ==
    /\ Analyzed
    /\ WordsEnding(call.text[1]) = 5
    /\ result[1].value.characteristics.message_length = "medium"
    /\ FLe(result[1].value.characteristics.emoji_frequency, F1_0)

\* the positions of the items with the top score
TopScored(scores) ==
    {i \in 1..Len(scores) :
        \A k \in 1..Len(scores) : ~FLt(scores[i].score, scores[k].score)}

\* the least position of a non-empty set of positions
Earliest(positions) == CHOOSE i \in positions : \A k \in positions : i <= k

\* the least position but one of a set of two positions or more
NextEarliest(positions) == Earliest(positions \ {Earliest(positions)})

\* the message of the call has no keyword and no avoid-keyword of any
\* context, and the call has no history, no time and no preferences
PlainCall ==
    /\ \A i \in 1..Len(context_rules) :
           /\ Hits(context_rules[i].rules.keywords, LowerMessage) = 0
           /\ Hits(Get(context_rules[i].rules, "avoid_keywords", <<>>),
                   LowerMessage) = 0
    /\ ~Truthy(call.dialog_history)
    /\ ~Truthy(call.time_info)
    /\ ~Truthy(call.user_preferences)

\* C27: when several contexts share the top score, the primary context is
\* the one of them that is earliest in the rule table (professional,
\* family, romantic, friendly, creative) and the secondary contexts are the
\* next of them; a message without any keyword and avoid-keyword, routed
\* without history, time and preferences, gets the primary context
\* "professional", the confidence 0 and the secondary contexts ["family"].
C27_TiesInTableOrder ==
    (IsRoute /\ Returned) =>
        /\ With(RouteScores, LAMBDA scores :
           With(TopScored(scores), LAMBDA top :
               Cardinality(top) > 1 =>
                   /\ result[1].value.primary_context =
                          scores[Earliest(top)].name
                   /\ result[1].value.secondary_contexts =
                          <<scores[NextEarliest(top)].name>>))
        /\ PlainCall =>
               /\ result[1].value.primary_context = "professional"
               /\ FCmp(result[1].value.confidence, F0_0) = 0
               /\ result[1].value.secondary_contexts = <<"family">>

\* a route whose top score is above 0 and shared by two contexts that are
\* not neighbours in the table
C27_Witness ==
    /\ IsRoute /\ Returned
    /\ With(RouteScores, LAMBDA scores :
       With(TopScored(scores), LAMBDA top :
           /\ Cardinality(top) = 2
           /\ NextEarliest(top) > Earliest(top) + 1
           /\ FLt(F0_0, scores[Earliest(top)].score)
           /\ result[1].value.secondary_contexts =
                  <<scores[NextEarliest(top)].name>>))

\* a plain call has returned
C27_PlainWitness ==
    /\ IsRoute /\ Returned /\ PlainCall
    /\ call.message # None /\ call.message[1] # <<>>

\* validate_context_switch allows the switch with the history of the call
Allowed(current, proposed) ==
    validate_context_switch(current, proposed, call.dialog_history).value[1]

\* C28: in the state machine of the switches that validate_context_switch
\* allows, started in one of the five contexts, the current context is
\* always one of the five contexts; from it every other of the five is
\* reached by one allowed switch or by two through friendly; and a switch
\* between two of the five that is allowed is allowed backwards too.
C28_SwitchGraph ==
    /\ call.current_context \in ContextNames
    /\ \A p \in ContextNames \ {call.current_context} :
           \/ Allowed(call.current_context, p)
           \/ /\ Allowed(call.current_context, "friendly")
              /\ Allowed("friendly", p)
    /\ \A c, p \in ContextNames : Allowed(c, p) => Allowed(p, c)

\* the dialogue followed an allowed switch to romantic, and the proposal
\* made there, professional, was refused: it takes two switches
C28_Witness ==
    /\ earlier # None /\ earlier[1].value[1]
    /\ call.current_context = "romantic"
    /\ call.proposed_context = "professional"
    /\ result # None /\ ~result[1].value[1]
    /\ Allowed("romantic", "friendly") /\ Allowed("friendly", "professional")

\* the histories that a second call of validate_context_switch is given
OtherHistories ==
    Optional(Lists({Vocabulary[2], Vocabulary[11]}, MaxHistory))

\* what validate_context_switch returns for the contexts of the call and
\* another history
WithHistory(h) ==
    validate_context_switch(call.current_context, call.proposed_context, h)

\* C29: the flag that validate_context_switch returns depends on the
\* current and the proposed context only: with every other history the
\* flag is the same, and the reason of a refused switch is the same too.
C29_FlagIgnoresHistory ==
    (IsValidate /\ Returned) =>
        \A h \in OtherHistories :
            With(WithHistory(h), LAMBDA other :
                /\ other.outcome = "return"
                /\ other.value[1] = result[1].value[1]
                /\ ~result[1].value[1] =>
                       other.value[2] = result[1].value[2])

\* an allowed switch whose reason is another one with another history
C29_Witness ==
    /\ IsValidate /\ Returned
    /\ result[1].value[1]
    /\ \E h \in OtherHistories :
           /\ WithHistory(h).value[1]
           /\ WithHistory(h).value[2] # result[1].value[2]

\* a refused switch of a call with a history of more than three messages
\* that name the proposed context
C29_RefusedWitness ==
    /\ IsValidate /\ Returned
    /\ ~result[1].value[1]
    /\ Truthy(call.dialog_history)
    /\ Len(call.dialog_history[1]) > 3
    /\ InList(call.proposed_context,
              RecentSwitchContexts(call.dialog_history[1]))

\* the dictionary without the keys
Without(d, keys) == [k \in DOMAIN d \ keys |-> d[k]]

\* the optional dictionary without the keys
OptionWithout(opt, keys) ==
    IF opt = None THEN None ELSE Some(Without(opt[1], keys))

\* the time_info of the call without the weekday and the holiday flag
PlainTime == OptionWithout(call.time_info, {"weekday", "is_holiday"})

\* the user_preferences of the call without the avoided contexts and the
\* style tag
PlainPreferences ==
    OptionWithout(call.user_preferences,
                  {"avoid_contexts", "communication_style"})

\* the call has one of the four inputs
HasIgnoredInput ==
    PlainTime # call.time_info \/ PlainPreferences # call.user_preferences

\* C30: the weekday, the holiday flag, the list of avoided contexts and the
\* style tag change no score, and not the primary context, the secondary
\* contexts and the confidence of route_context: the call without these
\* inputs has the same scores and returns the same three values, so two
\* calls that differ in these inputs only do.
C30_IgnoredInputs ==
    (IsRoute /\ Returned /\ HasIgnoredInput) =>
        /\ RouteScores =
               ContextScores(call.message,
                             HistoryAnalysis(call.dialog_history),
                             TimeAnalysis(PlainTime),
                             PreferencesAnalysis(PlainPreferences))
        /\ With(route_context(call.message, call.dialog_history,
                              PlainPreferences, PlainTime),
                LAMBDA plain :
                    /\ plain.outcome = "return"
                    /\ plain.value.primary_context =
                           result[1].value.primary_context
                    /\ plain.value.secondary_contexts =
                           result[1].value.secondary_contexts
                    /\ plain.value.confidence = result[1].value.confidence)

\* a route at an hour of a holiday Sunday whose primary context is in its
\* list of avoided contexts
C30_Witness ==
    /\ IsRoute /\ Returned
    /\ Truthy(call.time_info)
    /\ {"hour", "weekday", "is_holiday"} \subseteq DOMAIN call.time_info[1]
    /\ call.time_info[1].weekday >= 5
    /\ call.time_info[1].is_holiday
    /\ Truthy(call.user_preferences)
    /\ "avoid_contexts" \in DOMAIN call.user_preferences[1]
    /\ InList(result[1].value.primary_context,
              call.user_preferences[1].avoid_contexts)

====
